---- MODULE Spec2Model ----
(***************************************************************************)
(* BinarySchema: schema validation, bit-length precomputation, the         *)
(* compiled encoder / decoder and the bit-level BufferWriter/BufferReader. *)
(*                                                                         *)
(* JavaScript values are tagged records (Val) so that `undefined`, numbers *)
(* booleans, strings, buffers and lists can be compared with each other.   *)
(* A byte array is a sequence; the byte at offset o is buffer[o + 1].      *)
(***************************************************************************)
EXTENDS Integers, Sequences, FiniteSets, TLC

VARIABLES
    declared,   \* the schema declaration handed to defineSchemas
    data,       \* the value handed to encode: field name -> Val
    pc,         \* position in defineSchemas / encode / decode
    schema,     \* the frozen schema (ordered fields, includeSize filled, bitLength)
    enc,        \* encoder locals: writer, bitLength, field index, emitted payloads, error
    out,        \* the Uint8Array returned by encode
    dec,        \* decoder locals: reader, data mapping, field index, read payloads, error
    prim        \* a BufferWriter / BufferReader used on its own: its arguments and results

vars == <<declared, data, pc, schema, enc, out, dec, prim>>

-----------------------------------------------------------------------------
(* Bounds of the model *)

\* longest list value drawn for a list field
MaxListLen == 2
\* longest text (in characters) drawn for a String field
MaxTextLen == 2
\* longest byte sequence drawn for a Buffer field
MaxBlobLen == 1
\* most bits drawn for toPrecision / fromPrecision
MaxPrecisionBits == 4
\* widest [minimum, maximum] interval drawn for toPrecision / fromPrecision
MaxSpan == 6
\* size in bytes of the BufferWriter used on its own
WriterBytes == 3
\* most calls made on the BufferWriter used on its own
MaxCalls == 3
\* most calls made on the BufferReader used on its own
MaxReads == 2
\* longest byte array handed to the BufferReader used on its own
MaxReaderBytes == 3
\* size in bytes of the buffer a writer and a reader share
PairBytes == 8
\* most write / read pairs made on the shared buffer
MaxPairs == 2
\* size in bytes of the writer handed to encode
StreamBytes == 12
\* most bytes written to that writer before the first record
MaxSkip == 2
\* most records encoded into that writer
MaxRecords == 2

-----------------------------------------------------------------------------
(* JavaScript values *)

\* content of a byte that Buffer.allocUnsafe left unwritten
Uninit == -1

Undef == [t |-> "undefined", n |-> 0, s |-> <<>>, l |-> <<>>]
Bool(b) == [t |-> "boolean", n |-> IF b THEN 1 ELSE 0, s |-> <<>>, l |-> <<>>]
Num(x) == [t |-> "number", n |-> x, s |-> <<>>, l |-> <<>>]
\* a string is its sequence of code points
Str(cps) == [t |-> "string", n |-> 0, s |-> cps, l |-> <<>>]
\* a Uint8Array value is its sequence of bytes
Buf(bytes) == [t |-> "buffer", n |-> 0, s |-> bytes, l |-> <<>>]
\* an array of primitive values
List(items) == [t |-> "list", n |-> 0, s |-> <<>>, l |-> items]

\* JavaScript truthiness, as used by `&& data.dep` and `!data.dep`
Truthy(v) ==
    CASE v.t = "undefined" -> FALSE
      [] v.t = "boolean" -> v.n = 1
      [] v.t = "number" -> v.n # 0
      [] v.t = "string" -> v.s # <<>>
      [] OTHER -> TRUE

\* `a ?? b`
Coalesce(a, b) == IF a.t = "undefined" THEN b ELSE a

\* the number a value becomes in writeBits / writeBoolean / setUint8:
\* +true = 1, +false = 0; undefined takes the parameter default 0 (or NaN,
\* which every bitwise operator and DataView setter turns into 0)
ToNumber(v) == IF v.t \in {"boolean", "number"} THEN v.n ELSE 0

\* `const x = e;` followed by statements using x: e is evaluated once
With(x, F(_)) == F(x)

Min(a, b) == IF a < b THEN a ELSE b

RECURSIVE Concat(_)
Concat(seqs) == IF seqs = <<>> THEN <<>> ELSE Head(seqs) \o Concat(Tail(seqs))

-----------------------------------------------------------------------------
(* TextEncoder / TextDecoder (UTF-8), for code points below 0x800 *)

textEncodeChar(cp) ==
    IF cp < 128 THEN <<cp>>
    ELSE <<192 + (cp \div 64), 128 + (cp % 64)>>

RECURSIVE textEncode(_)
textEncode(cps) ==
    IF cps = <<>> THEN <<>> ELSE textEncodeChar(Head(cps)) \o textEncode(Tail(cps))

\* TextDecoder is not fatal: a byte that starts no valid sequence decodes to U+FFFD
RECURSIVE textDecode(_)
textDecode(bytes) ==
    IF bytes = <<>> THEN <<>>
    ELSE LET b == Head(bytes) IN
         IF b < 128 THEN <<b>> \o textDecode(Tail(bytes))
         ELSE IF b \in 194..223 /\ Len(bytes) >= 2 /\ bytes[2] \in 128..191
              THEN <<(b - 192) * 64 + (bytes[2] - 128)>> \o textDecode(Tail(Tail(bytes)))
              ELSE <<65533>> \o textDecode(Tail(bytes))

stringByteLength(text) == Len(textEncode(text))

-----------------------------------------------------------------------------
(* Bit helpers.  Every number of the model is below 2^31, where ToInt32 and *)
(* ToUint32 are the identity on non-negative integers.                      *)

\* x & ((1 << n) - 1)
LowBits(x, n) == x % (2 ^ n)
\* x >>> n  (and x >> n on a non-negative x)
Shr(x, n) == x \div (2 ^ n)
\* a faulty x << n that forgets the shift
ShlForgotten(x, n) == x
\* x << n
Shl(x, n) == x * (2 ^ n)

\* a | b on bytes
RECURSIVE BitOr(_, _)
BitOr(a, b) ==
    IF a = 0 THEN b
    ELSE IF b = 0 THEN a
    ELSE (IF a % 2 = 1 \/ b % 2 = 1 THEN 1 ELSE 0) + 2 * BitOr(a \div 2, b \div 2)

-----------------------------------------------------------------------------
(* Uint8Array / DataView *)

\* createBuffer(n, false, 0, false): allocUnsafe leaves the bytes unwritten
createBuffer(n) == [k \in 1..n |-> Uninit]

InBuffer(buffer, o) == o >= 0 /\ o < Len(buffer)

\* this.buffer[o] = b : a store outside the typed array is ignored
SetByte(buffer, o, b) == IF InBuffer(buffer, o) THEN [buffer EXCEPT ![o + 1] = b] ELSE buffer

\* this.buffer.set(bytes, o)
RECURSIVE SetBytes(_, _, _)
SetBytes(buffer, o, bytes) ==
    IF bytes = <<>> THEN buffer
    ELSE SetBytes(SetByte(buffer, o, Head(bytes)), o + 1, Tail(bytes))

\* the bytes DataView.setUint16 / setInt16 store: the value modulo 2^16
Bytes16(value, littleEndian) ==
    LET u == value % 65536
        lo == u % 256
        hi == u \div 256
    IN IF littleEndian THEN <<lo, hi>> ELSE <<hi, lo>>

\* the bytes DataView.setUint32 / setInt32 store: the value modulo 2^32
Bytes32(value, littleEndian) ==
    LET b0 == value % 256
        b1 == (value \div 256) % 256
        b2 == (value \div 65536) % 256
        b3 == (value \div 16777216) % 256
    IN IF littleEndian THEN <<b0, b1, b2, b3>> ELSE <<b3, b2, b1, b0>>

-----------------------------------------------------------------------------
(* BufferWriter *)

Ok(w) == [w |-> w, err |-> "none"]
Fail(w, e) == [w |-> w, err |-> e]

\* new BufferWriter(byteLength, resizable = (byteLength === 0), littleEndian)
newBufferWriter(byteLength, littleEndian) ==
    [buffer |-> createBuffer(byteLength), byteLength |-> byteLength,
     endianness |-> littleEndian, resizable |-> (byteLength = 0),
     bitOffset |-> 0, bitIndex |-> 0, offset |-> 0]

\* rangeMax / rangeMin throw a RangeError for bits outside [1, 53]
InvalidBits(bits) == bits < 1 \/ bits > 53

\* rangeMax(bits, signed) for bits in [1, 53]
rangeMax(bits, signed) == IF signed THEN 2 ^ (bits - 1) - 1 ELSE 2 ^ bits - 1

\* rangeMin(bits, signed) for bits in [1, 53]
rangeMin(bits, signed) == IF signed THEN -(2 ^ (bits - 1)) ELSE 0

\* a number that need not be an integer: num / den with den > 0, or one of
\* the values a division by zero produces
Finite(num, den) == [kind |-> "finite", num |-> num, den |-> den]
NotFinite(kind) == [kind |-> kind, num |-> 0, den |-> 1]

Max(a, b) == IF a > b THEN a ELSE b

\* Math.round(num / den) for den > 0: the nearest integer, a half goes up
MathRound(num, den) == (2 * num + den) \div (2 * den)

\* clamp(value, min, max) of utils.ts
clamp(value, min, max) ==
    IF min > max THEN [value |-> 0, err |-> "RangeError"]
    ELSE [value |-> Min(Max(value, min), max), err |-> "none"]

\* the default of the `minimum` parameter of toPrecision / fromPrecision
minimumDefault(signed, maximum) == IF signed THEN -maximum ELSE 0

\* BufferWriter.toPrecision(value, maximum, bits, signed, minimum), in exact
\* arithmetic
toPrecision(value, maximum, bits, signed, minimum) ==
    IF maximum = minimum THEN [value |-> 0, err |-> "none"]
    ELSE IF InvalidBits(bits) THEN [value |-> 0, err |-> "RangeError"]
    ELSE With(IF value < minimum \/ value > maximum
              THEN clamp(value, minimum, maximum)
              ELSE [value |-> value, err |-> "none"],
              LAMBDA c :
                IF c.err # "none" THEN c
                ELSE [value |-> MathRound((c.value - minimum) * rangeMax(bits, signed),
                                          maximum - minimum),
                      err |-> "none"])

expand(w, bytes) ==
    [w EXCEPT !.buffer = SetBytes(createBuffer(w.byteLength + bytes), 0, w.buffer),
              !.byteLength = w.byteLength + bytes]

ensureCapacity(w, bytes, offset) ==
    IF offset + bytes > w.byteLength
    THEN IF w.resizable
         THEN Ok(expand(w, offset + bytes - w.byteLength))
         ELSE Fail(w, "RangeError")
    ELSE IF offset < 0 THEN Fail(w, "RangeError") ELSE Ok(w)

advanceBytes(w, bytes) == [w EXCEPT !.offset = w.offset + bytes]

\* private advance(bytes, offset, advance); `adv` is the resolved flag
advance(w, bytes, offset, adv) ==
    With(ensureCapacity(w, bytes, offset),
         LAMBDA r : IF r.err # "none" THEN r
                    ELSE IF adv THEN Ok(advanceBytes(r.w, bytes)) ELSE r)

\* the default of the `advance` parameter of the byte writes
advanceDefault(w, offset) == offset = w.offset

\* writeUint8 and writeInt8 store the same byte: the value modulo 2^8
writeUint8(w, value, offset, adv) ==
    With(advance(w, 1, offset, adv),
         LAMBDA r : IF r.err # "none" THEN r
                    ELSE Ok([r.w EXCEPT !.buffer = SetByte(@, offset, value % 256)]))

writeInt8(w, value, offset, adv) ==
    With(advance(w, 1, offset, adv),
         LAMBDA r : IF r.err # "none" THEN r
                    ELSE Ok([r.w EXCEPT !.buffer = SetByte(@, offset, value % 256)]))

writeUint16(w, value, offset, adv) ==
    With(advance(w, 2, offset, adv),
         LAMBDA r : IF r.err # "none" THEN r
                    ELSE Ok([r.w EXCEPT !.buffer = SetBytes(@, offset, Bytes16(value, w.endianness))]))

writeInt16(w, value, offset, adv) ==
    With(advance(w, 2, offset, adv),
         LAMBDA r : IF r.err # "none" THEN r
                    ELSE Ok([r.w EXCEPT !.buffer = SetBytes(@, offset, Bytes16(value, w.endianness))]))

writeUint32(w, value, offset, adv) ==
    With(advance(w, 4, offset, adv),
         LAMBDA r : IF r.err # "none" THEN r
                    ELSE Ok([r.w EXCEPT !.buffer = SetBytes(@, offset, Bytes32(value, w.endianness))]))

writeInt32(w, value, offset, adv) ==
    With(advance(w, 4, offset, adv),
         LAMBDA r : IF r.err # "none" THEN r
                    ELSE Ok([r.w EXCEPT !.buffer = SetBytes(@, offset, Bytes32(value, w.endianness))]))

\* this.buffer[o] inside `currentByte |= ...`: undefined outside the array
ByteAt(buffer, o) == IF InBuffer(buffer, o) THEN buffer[o + 1] ELSE 0

OrByte(cur, x) == IF cur = Uninit THEN Uninit ELSE BitOr(cur, x)

\* the `while (bits > 0)` loop of writeBits
RECURSIVE writeBitsLoop(_, _, _, _, _, _)
writeBitsLoop(buffer, value, bits, byteOffset, bitOffset, bitIndex) ==
    IF bits <= 0
    THEN [buffer |-> buffer, byteOffset |-> byteOffset, bitOffset |-> bitOffset,
          bitIndex |-> bitIndex]
    ELSE LET bo == IF bitIndex = 0 THEN byteOffset ELSE bitOffset
             by == IF bitIndex = 0 THEN byteOffset + 1 ELSE byteOffset
             bitsToWrite == Min(bits, 8 - bitIndex)
             bitsValue == LowBits(value, bitsToWrite)
             stored == IF bitIndex = 0 /\ bitsToWrite = 8 THEN bitsValue
                       ELSE OrByte(IF bitIndex = 0 THEN 0 ELSE ByteAt(buffer, bo),
                                   Shl(bitsValue, bitIndex))
         IN writeBitsLoop(SetByte(buffer, bo, stored), Shr(value, bitsToWrite),
                          bits - bitsToWrite, by, bo, (bitIndex + bitsToWrite) % 8)

\* writeBits(value, bits, signed) with offset = this.bitOffset and advance = true
writeBits(w, value, bits, signed) ==
    IF w.bitIndex = 0 /\ w.bitOffset = w.offset /\ bits \in {8, 16, 32}
    THEN CASE bits = 8 /\ signed -> writeInt8(w, value, w.offset, TRUE)
           [] bits = 8 /\ ~signed -> writeUint8(w, value, w.bitOffset, TRUE)
           [] bits = 16 /\ signed -> writeInt16(w, value, w.offset, TRUE)
           [] bits = 16 /\ ~signed -> writeUint16(w, value, w.bitOffset, TRUE)
           [] bits = 32 /\ signed -> writeInt32(w, value, w.offset, TRUE)
           [] bits = 32 /\ ~signed -> writeUint32(w, value, w.bitOffset, TRUE)
    ELSE IF InvalidBits(bits) THEN Fail(w, "RangeError")
    ELSE IF value < rangeMin(bits, signed) \/ value > rangeMax(bits, signed)
         THEN Fail(w, "RangeError")
         ELSE With(writeBitsLoop(w.buffer,
                                 IF signed THEN value - rangeMin(bits, signed) ELSE value,
                                 bits, w.offset, w.bitOffset, w.bitIndex),
                   LAMBDA r : Ok([w EXCEPT !.buffer = r.buffer, !.offset = r.byteOffset,
                                           !.bitOffset = r.bitOffset,
                                           !.bitIndex = r.bitIndex]))

\* writeBoolean(value) in bit mode: writeBits(+value) with bits = 1, signed = false
writeBoolean(w, value) == writeBits(w, ToNumber(value), 1, FALSE)

\* writeBuffer(buffer, writeSize) at offset = this.offset, `advance` left undefined
writeBuffer(w, bytes, writeSize) ==
    LET offset == IF writeSize THEN w.offset + 2 ELSE w.offset
    IN With(IF writeSize
            THEN writeUint16(w, Len(bytes), w.offset, advanceDefault(w, w.offset))
            ELSE Ok(w),
            LAMBDA r1 :
              IF r1.err # "none" THEN r1
              ELSE With(advance(r1.w, Len(bytes), offset, advanceDefault(r1.w, offset)),
                        LAMBDA r2 :
                          IF r2.err # "none" THEN r2
                          ELSE Ok([r2.w EXCEPT !.buffer = SetBytes(@, offset, bytes)])))

\* TextEncoder.encodeInto(text, subarray): whole characters while they fit
RECURSIVE encodeInto(_, _)
encodeInto(text, room) ==
    IF text = <<>> THEN [read |-> 0, bytes |-> <<>>]
    ELSE LET c == textEncodeChar(Head(text)) IN
         IF Len(c) > room THEN [read |-> 0, bytes |-> <<>>]
         ELSE With(encodeInto(Tail(text), room - Len(c)),
                   LAMBDA rest : [read |-> 1 + rest.read, bytes |-> c \o rest.bytes])

\* writeString(text, writeSize) at offset = this.offset, advance = true
writeString(w, text, writeSize) ==
    IF w.resizable
    THEN writeBuffer(w, textEncode(text), writeSize)
    ELSE LET offset == IF writeSize THEN w.offset + 2 ELSE w.offset
             room == IF offset > w.byteLength THEN 0 ELSE w.byteLength - offset
         IN With(encodeInto(text, room),
                 LAMBDA e :
                   With([w EXCEPT !.buffer = SetBytes(@, offset, e.bytes)],
                        LAMBDA w1 :
                          IF e.read < Len(text) THEN Fail(w1, "RangeError")
                          ELSE With(IF writeSize
                                    THEN writeUint16(w1, Len(e.bytes), offset - 2, TRUE)
                                    ELSE Ok(w1),
                                    LAMBDA r :
                                      IF r.err # "none" THEN r
                                      ELSE Ok(advanceBytes(r.w, offset + Len(e.bytes)
                                                                - r.w.offset)))))

-----------------------------------------------------------------------------
(* BufferReader *)

\* new BufferReader(bytes): little-endian by default, cursors at 0
newBufferReader(bytes) ==
    [buffer |-> bytes, byteLength |-> Len(bytes), endianness |-> TRUE,
     bitOffset |-> 0, bitIndex |-> 0, offset |-> 0]

ROk(r, v) == [r |-> r, value |-> v, err |-> "none"]
RFail(r, e) == [r |-> r, value |-> 0, err |-> e]

\* private advance(bytes, offset, advance); every caller passes `advance`
reader_advance(r, bytes, offset, adv) ==
    IF adv THEN [r EXCEPT !.offset = r.offset + (offset + bytes - r.offset)] ELSE r

\* private advance(bytes, offset, advance = true) of the reader
readerAdvance(r, bytes, offset) == reader_advance(r, bytes, offset, TRUE)

\* DataView getters throw a RangeError outside the view
OutsideView(r, offset, bytes) == offset < 0 \/ offset + bytes > r.byteLength

\* readUint8(advance, offset)
reader_readUint8(r, adv, offset) ==
    IF OutsideView(r, offset, 1) THEN RFail(r, "RangeError")
    ELSE ROk(reader_advance(r, 1, offset, adv), r.buffer[offset + 1])

\* readInt8(advance, offset)
reader_readInt8(r, adv, offset) ==
    IF OutsideView(r, offset, 1) THEN RFail(r, "RangeError")
    ELSE LET u == r.buffer[offset + 1]
         IN ROk(reader_advance(r, 1, offset, adv), IF u >= 128 THEN u - 256 ELSE u)

Get16(r, offset) ==
    IF r.endianness THEN r.buffer[offset + 1] + 256 * r.buffer[offset + 2]
    ELSE 256 * r.buffer[offset + 1] + r.buffer[offset + 2]

\* readUint16(advance, offset)
reader_readUint16(r, adv, offset) ==
    IF OutsideView(r, offset, 2) THEN RFail(r, "RangeError")
    ELSE ROk(reader_advance(r, 2, offset, adv), Get16(r, offset))

\* readInt16(advance, offset)
reader_readInt16(r, adv, offset) ==
    IF OutsideView(r, offset, 2) THEN RFail(r, "RangeError")
    ELSE LET u == Get16(r, offset)
         IN ROk(reader_advance(r, 2, offset, adv), IF u >= 32768 THEN u - 65536 ELSE u)

readUint8(r, offset) == reader_readUint8(r, TRUE, offset)

readInt8(r, offset) == reader_readInt8(r, TRUE, offset)

readUint16(r, offset) == reader_readUint16(r, TRUE, offset)

readInt16(r, offset) == reader_readInt16(r, TRUE, offset)

\* the `while (bitsRead < bits)` loop of readBits; this.buffer[o] outside the
\* array is undefined, and `undefined >> n` is 0
RECURSIVE readBitsLoop(_, _, _, _, _, _, _)
readBitsLoop(buffer, value, bitsRead, bits, byteOffset, bitOffset, bitIndex) ==
    IF bitsRead >= bits
    THEN [value |-> value, byteOffset |-> byteOffset, bitOffset |-> bitOffset,
          bitIndex |-> bitIndex]
    ELSE LET bo == IF bitIndex = 0 THEN byteOffset ELSE bitOffset
             by == IF bitIndex = 0 THEN byteOffset + 1 ELSE byteOffset
             bitsToRead == Min(bits - bitsRead, 8 - bitIndex)
             currentByte == ByteAt(buffer, bo)
             extractedBits == LowBits(Shr(currentByte, bitIndex), bitsToRead)
         IN readBitsLoop(buffer, value + Shl(extractedBits, bitsRead), bitsRead + bitsToRead,
                         bits, by, bo, (bitIndex + bitsToRead) % 8)

\* readBits(bits, signed, advance, offset) for bits below 32; `r1` is the
\* reader after `if (offset !== this.bitOffset) { if (advance) this.bitIndex = 0 }`
reader_readBits(r, bits, signed, adv, offset) ==
    LET bitIndex == IF offset # r.bitOffset THEN 0 ELSE r.bitIndex
        r1 == IF offset # r.bitOffset /\ adv THEN [r EXCEPT !.bitIndex = 0] ELSE r
    IN IF bitIndex = 0 /\ offset = r.offset /\ bits \in {8, 16}
       THEN CASE bits = 8 /\ signed -> reader_readInt8(r1, adv, offset)
              [] bits = 8 /\ ~signed -> reader_readUint8(r1, adv, offset)
              [] bits = 16 /\ signed -> reader_readInt16(r1, adv, offset)
              [] bits = 16 /\ ~signed -> reader_readUint16(r1, adv, offset)
       ELSE IF signed /\ InvalidBits(bits) THEN RFail(r1, "RangeError")
       ELSE With(readBitsLoop(r.buffer, 0, 0, bits, r.offset, offset, bitIndex),
                 LAMBDA x :
                   ROk(IF adv
                       THEN [r1 EXCEPT !.offset = x.byteOffset, !.bitOffset = x.bitOffset,
                                       !.bitIndex = x.bitIndex]
                       ELSE r1,
                       IF signed THEN x.value + rangeMin(bits, signed) ELSE x.value))

\* readBits(bits, signed) with advance = true and offset = this.bitOffset
readBits(r, bits, signed) == reader_readBits(r, bits, signed, TRUE, r.bitOffset)

\* readBoolean(byte, advance, offset): a full byte through readUint8, or one
\* bit through readBits() called without arguments
reader_readBoolean(r, byte, adv, offset) ==
    With(IF byte THEN reader_readUint8(r, adv, offset)
         ELSE reader_readBits(r, 1, FALSE, TRUE, r.bitOffset),
         LAMBDA x : [x EXCEPT !.value = IF x.err = "none" /\ x.value # 0 THEN 1 ELSE 0])

\* readBoolean() in bit mode: Boolean(readBits())
readBoolean(r) == reader_readBoolean(r, FALSE, TRUE, r.offset)

\* the do / while loop of readUint: seven bits a byte, least significant first
RECURSIVE readUintLoop(_, _, _, _)
readUintLoop(r, result, shift, offset) ==
    With(reader_readUint8(r, FALSE, offset),
         LAMBDA x :
           IF x.err # "none" THEN [value |-> 0, offset |-> offset, err |-> x.err]
           ELSE With(BitOr(result, Shl(x.value % 128, shift)),
                     LAMBDA acc :
                       IF x.value >= 128 THEN readUintLoop(r, acc, shift + 7, offset + 1)
                       ELSE [value |-> acc, offset |-> offset + 1, err |-> "none"]))

\* readUint(advance, offset)
reader_readUint(r, adv, offset) ==
    With(readUintLoop(r, 0, 0, offset),
         LAMBDA x :
           IF x.err # "none" THEN RFail(r, x.err)
           ELSE ROk(IF adv THEN [r EXCEPT !.offset = x.offset] ELSE r, x.value))

\* readInt(advance, offset): (zigzag >>> 1) ^ -(zigzag & 1)
reader_readInt(r, adv, offset) ==
    With(reader_readUint(r, adv, offset),
         LAMBDA x :
           IF x.err # "none" THEN x
           ELSE [x EXCEPT !.value = IF x.value % 2 = 0 THEN x.value \div 2
                                    ELSE -(x.value \div 2) - 1])

\* this.buffer.subarray(from, to): both ends are clamped to the array
Subarray(buffer, from, to) ==
    LET f == IF from < 0 THEN 0 ELSE Min(from, Len(buffer))
        t == IF to < 0 THEN 0 ELSE Min(to, Len(buffer))
    IN IF t <= f THEN <<>> ELSE SubSeq(buffer, f + 1, t)

\* readBuffer(size, clone, advance, offset): size is true (a 16-bit length
\* comes first), false or undefined (all that remains), or a byte count; the
\* value is the byte sequence returned
reader_readBuffer(r, size, adv, offset) ==
    IF size = Bool(TRUE)
    THEN With(reader_readUint16(r, adv, offset),
              LAMBDA x :
                IF x.err # "none" THEN [r |-> x.r, value |-> <<>>, err |-> x.err]
                ELSE [r |-> reader_advance(x.r, x.value, offset + 2, adv),
                      value |-> Subarray(r.buffer, offset + 2, offset + 2 + x.value),
                      err |-> "none"])
    ELSE LET length == IF size.t = "number" THEN size.n ELSE Len(r.buffer) - offset
         IN [r |-> reader_advance(r, length, offset, adv),
             value |-> Subarray(r.buffer, offset, offset + length),
             err |-> "none"]

\* readBuffer(size) with size = includeSize, advance = true, offset = this.offset
readBuffer(r, size) == reader_readBuffer(r, Bool(size), TRUE, r.offset)

\* readString(a, advance, offset): textDecoder.decode(readBuffer(a, false, ...))
reader_readString(r, size, adv, offset) ==
    With(reader_readBuffer(r, size, adv, offset),
         LAMBDA x : [x EXCEPT !.value = textDecode(x.value)])

\* readString(includeSize)
readString(r, size) == reader_readString(r, Bool(size), TRUE, r.offset)

\* BufferReader.fromPrecision(value, maximum, bits, signed, minimum), in exact
\* arithmetic; value / 0 is NaN for 0 and an infinity otherwise
fromPrecision(value, maximum, bits, signed, minimum) ==
    IF maximum = minimum THEN [value |-> Finite(minimum, 1), err |-> "none"]
    ELSE IF InvalidBits(bits) THEN [value |-> NotFinite("NaN"), err |-> "RangeError"]
    ELSE With(rangeMax(bits, signed),
              LAMBDA bound :
                [value |-> IF bound # 0
                           THEN Finite(value * (maximum - minimum) + minimum * bound, bound)
                           ELSE IF value = 0 THEN NotFinite("NaN")
                           ELSE IF (value > 0) = (maximum > minimum)
                                THEN NotFinite("Infinity")
                                ELSE NotFinite("-Infinity"),
                 err |-> "none"])

-----------------------------------------------------------------------------
(* Schema declarations (types.ts) *)

\* a field declaration; an option left out of the declaration is Undef
\* (`signed`, `list` and `optional` left out read as false)
Field(name, type) ==
    [name |-> name, type |-> type, bits |-> Undef, signed |-> FALSE,
     list |-> FALSE, optional |-> FALSE, default |-> Undef, dependencies |-> <<>>,
     includeSize |-> Undef, min |-> Undef, max |-> Undef,
     minLength |-> Undef, maxLength |-> Undef, pattern |-> Undef]

\* the one RegExp the declarations use, /^H+$/, held as its source text
OnlyH == Str(<<94, 72, 43, 36>>)

\* pattern.test(text) for /^H+$/: one or more "H" and nothing else
patternTest(pattern, text) ==
    /\ text # <<>>
    /\ \A k \in 1..Len(text) : text[k] = 72

FieldNames(fields) == {fields[k].name : k \in 1..Len(fields)}

\* fields[name]; the caller checks that the name is declared
FieldOf(fields, name) == fields[CHOOSE k \in 1..Len(fields) : fields[k].name = name]

HasDeps(f) == f.dependencies # <<>>

-----------------------------------------------------------------------------
(* defineSchemas: reorderFieldsByDependencies, validation, precomputeBitLength *)

\* a reordering that keeps the declared order and never looks for a cycle
reorderSkipped(fields) == [err |-> "none", msg |-> "none", field |-> "", fields |-> fields]

\* a traversal that never descends into the dependencies of a field
visitDependenciesSkipped(fields, st, deps, k) == st

\* visit(fieldName) and its loop over field.dependencies; st holds the closure's
\* visited / visiting sets, the result list and the error thrown, if any (with
\* the field name its message carries)
RECURSIVE visit(_, _, _), visitDependencies(_, _, _, _)
visit(fields, st, fieldName) ==
    IF st.err # "none" THEN st
    ELSE IF fieldName \in st.visiting
         THEN [st EXCEPT !.err = "Error", !.msg = "circular", !.field = fieldName]
    ELSE IF fieldName \in st.visited THEN st
    \* fields[fieldName] is undefined: reading .dependencies throws
    ELSE IF fieldName \notin FieldNames(fields)
         THEN [st EXCEPT !.err = "TypeError", !.msg = "undefined"]
    ELSE LET st1 == [st EXCEPT !.visiting = @ \cup {fieldName}]
             st2 == visitDependencies(fields, st1, FieldOf(fields, fieldName).dependencies, 1)
         IN IF st2.err # "none" THEN st2
            ELSE [st2 EXCEPT !.visiting = @ \ {fieldName},
                             !.visited = @ \cup {fieldName},
                             !.result = Append(@, fieldName)]

visitDependencies(fields, st, deps, k) ==
    IF k > Len(deps) \/ st.err # "none" THEN st
    ELSE visitDependencies(fields, visit(fields, st, deps[k]), deps, k + 1)

RECURSIVE visitAll(_, _, _)
visitAll(fields, st, k) ==
    IF k > Len(fields) \/ st.err # "none" THEN st
    ELSE visitAll(fields, visit(fields, st, fields[k].name), k + 1)

reorderFieldsByDependencies(fields) ==
    LET st == visitAll(fields, [visited |-> {}, visiting |-> {}, result |-> <<>>,
                                err |-> "none", msg |-> "none", field |-> ""], 1)
    IN [err |-> st.err, msg |-> st.msg, field |-> st.field,
        fields |-> IF st.err # "none" THEN <<>>
                   ELSE [k \in 1..Len(st.result) |-> FieldOf(fields, st.result[k])]]

\* the default, min / max check shared by the numeric kinds
DefaultOutOfRange(f) ==
    /\ f.default # Undef
    /\ \/ f.min # Undef /\ f.default.n < f.min.n
       \/ f.max # Undef /\ f.default.n > f.max.n

\* the switch of the validation loop: the cause it throws for this field, or
\* "none"
FieldError(f) ==
    CASE f.type = "Integer" ->
            IF f.bits = Undef \/ f.bits.n <= 0 THEN "bits"
            ELSE IF DefaultOutOfRange(f) THEN "default"
            ELSE "none"
      [] f.type = "String" ->
            IF f.list /\ f.includeSize = Bool(FALSE) THEN "includeSize"
            ELSE IF /\ Truthy(f.default)
                    /\ f.pattern # Undef
                    /\ ~patternTest(f.pattern, f.default.s)
                 THEN "pattern"
            ELSE IF /\ f.default # Undef
                    /\ \/ f.minLength # Undef /\ Len(f.default.s) < f.minLength.n
                       \/ f.maxLength # Undef /\ Len(f.default.s) > f.maxLength.n
                 THEN "length"
            ELSE "none"
      [] f.type = "Buffer" ->
            IF f.list /\ f.includeSize = Bool(FALSE) THEN "includeSize" ELSE "none"
      [] OTHER -> "none"

FieldInvalid(f) == FieldError(f) # "none"

\* "Validate dependencies": the cause it throws for this field, or "none"
RECURSIVE DependencyErrorFrom(_, _, _)
DependencyErrorFrom(fields, f, k) ==
    IF k > Len(f.dependencies) THEN "none"
    ELSE IF f.dependencies[k] \notin FieldNames(fields) THEN "dependency missing"
    ELSE IF FieldOf(fields, f.dependencies[k]).type # "Boolean" THEN "dependency type"
    ELSE DependencyErrorFrom(fields, f, k + 1)

DependencyError(fields, f) == DependencyErrorFrom(fields, f, 1)

DependencyInvalid(fields, f) == DependencyError(fields, f) # "none"

\* the validation loop over the reordered fields: the first error thrown and
\* the field its message names
RECURSIVE validateFields(_, _)
validateFields(fields, k) ==
    IF k > Len(fields) THEN [msg |-> "none", field |-> ""]
    ELSE IF FieldInvalid(fields[k])
         THEN [msg |-> FieldError(fields[k]), field |-> fields[k].name]
    ELSE IF DependencyInvalid(fields, fields[k])
         THEN [msg |-> DependencyError(fields, fields[k]), field |-> fields[k].name]
    ELSE validateFields(fields, k + 1)

\* includeSize left undefined on a String / Buffer field becomes true
FillIncludeSize(f) ==
    IF f.type \in {"String", "Buffer"} /\ f.includeSize = Undef
    THEN [f EXCEPT !.includeSize = Bool(TRUE)]
    ELSE f

FieldBitLength(f) ==
    (IF f.optional THEN 1 ELSE 0)
    + (IF f.list THEN 16
       ELSE CASE f.type = "Boolean" -> IF ~HasDeps(f) THEN 1 ELSE 0
              [] f.type = "Integer" -> IF ~HasDeps(f) /\ ~f.optional THEN f.bits.n ELSE 0
              [] f.type \in {"String", "Buffer"} ->
                    IF Truthy(f.includeSize) /\ ~HasDeps(f) /\ ~f.optional THEN 16 ELSE 0)

RECURSIVE SumBitLength(_, _)
SumBitLength(fields, k) ==
    IF k > Len(fields) THEN 0 ELSE FieldBitLength(fields[k]) + SumBitLength(fields, k + 1)

precomputeBitLength(fields, prefix) ==
    SumBitLength(fields, 1) + (IF prefix # Undef THEN 8 ELSE 0)

\* defineSchemas for one schema: the frozen schema, or the error thrown with
\* its cause and the field name its message carries
defineSchemas(decl) ==
    LET ro == reorderFieldsByDependencies(decl.fields)
        bad == validateFields(ro.fields, 1)
        frozen == [k \in 1..Len(ro.fields) |-> FillIncludeSize(ro.fields[k])]
    IN IF ro.err # "none"
       THEN [err |-> ro.err, msg |-> ro.msg, field |-> ro.field,
             fields |-> <<>>, prefix |-> decl.prefix, bitLength |-> 0]
       ELSE IF bad.msg # "none"
       THEN [err |-> "Error", msg |-> bad.msg, field |-> bad.field,
             fields |-> <<>>, prefix |-> decl.prefix, bitLength |-> 0]
       ELSE [err |-> "none", msg |-> "none", field |-> "",
             fields |-> frozen, prefix |-> decl.prefix,
             bitLength |-> precomputeBitLength(frozen, decl.prefix)]

-----------------------------------------------------------------------------
(* compileEncoder: the body of the generated encode(data, writer) *)

\* the text of "${field.default}" in the generated source
DefaultText(f) ==
    IF f.default = Undef
    THEN <<117, 110, 100, 101, 102, 105, 110, 101, 100>>   \* "undefined"
    ELSE f.default.s

\* ` && data.dep` for every dependency
DependenciesTruthy(f, d) == \A k \in 1..Len(f.dependencies) : Truthy(d[f.dependencies[k]])

\* the fields the bit-length loop looks at
InBitLengthLoop(f) == HasDeps(f) \/ f.optional \/ f.list \/ f.type \in {"Buffer", "String"}

\* what one item adds to bitLength inside `if (... ) { ... }`; err when it throws
ItemBitLength(f, d, item) ==
    LET present == IF f.default # Undef /\ ~f.optional THEN TRUE ELSE item # Undef
        sized == Truthy(f.includeSize) /\ (f.list \/ f.optional \/ HasDeps(f))
    IN IF ~(present /\ DependenciesTruthy(f, d)) THEN [bits |-> 0, err |-> "none"]
       ELSE CASE f.type = "Boolean" -> [bits |-> 1, err |-> "none"]
              [] f.type = "Integer" -> [bits |-> f.bits.n, err |-> "none"]
              [] f.type = "Buffer" ->
                    IF item = Undef THEN [bits |-> 0, err |-> "TypeError"]
                    ELSE [bits |-> (IF sized THEN 16 ELSE 0) + Len(item.s) * 8,
                          err |-> "none"]
              [] f.type = "String" ->
                    [bits |-> (IF sized THEN 16 ELSE 0)
                              + stringByteLength(Coalesce(item, Str(DefaultText(f))).s) * 8,
                     err |-> "none"]

RECURSIVE ItemsBitLength(_, _, _, _)
ItemsBitLength(f, d, items, k) ==
    IF k > Len(items) THEN [bits |-> 0, err |-> "none"]
    ELSE With(ItemBitLength(f, d, items[k]),
              LAMBDA one :
                IF one.err # "none" THEN one
                ELSE With(ItemsBitLength(f, d, items, k + 1),
                          LAMBDA rest : [bits |-> one.bits + rest.bits, err |-> rest.err]))

\* one field of the bit-length loop; `for (const item of data.name)` throws a
\* TypeError when data.name is undefined
FieldDynamicBitLength(f, d) ==
    IF ~InBitLengthLoop(f) THEN [bits |-> 0, err |-> "none"]
    ELSE IF f.list
         THEN IF d[f.name].t # "list" THEN [bits |-> 0, err |-> "TypeError"]
              ELSE ItemsBitLength(f, d, d[f.name].l, 1)
         ELSE ItemBitLength(f, d, d[f.name])

RECURSIVE DynamicBitLength(_, _, _)
DynamicBitLength(fields, d, k) ==
    IF k > Len(fields) THEN [bits |-> 0, err |-> "none"]
    ELSE With(FieldDynamicBitLength(fields[k], d),
              LAMBDA one :
                IF one.err # "none" THEN one
                ELSE With(DynamicBitLength(fields, d, k + 1),
                          LAMBDA rest : [bits |-> one.bits + rest.bits, err |-> rest.err]))

\* an allocation that leaves the static bit length out of the sum
encodeAllocateDynamicOnly(sch, d) ==
    With(DynamicBitLength(sch.fields, d, 1),
         LAMBDA dyn :
           IF dyn.err # "none"
           THEN [w |-> newBufferWriter(0, TRUE), bitLength |-> 0, err |-> dyn.err]
           ELSE [w |-> newBufferWriter((dyn.bits + 7) \div 8, TRUE),
                 bitLength |-> dyn.bits, err |-> "none"])

\* the `else` branch taken when no writer is passed: the writer allocated for
\* Math.ceil(bitLength / 8) bytes, or the error thrown while adding up
encodeAllocate(sch, d) ==
    With(DynamicBitLength(sch.fields, d, 1),
         LAMBDA dyn :
           IF dyn.err # "none"
           THEN [w |-> newBufferWriter(0, TRUE), bitLength |-> 0, err |-> dyn.err]
           ELSE [w |-> newBufferWriter((sch.bitLength + dyn.bits + 7) \div 8, TRUE),
                 bitLength |-> sch.bitLength + dyn.bits, err |-> "none"])

\* a faulty encoder that never writes the prefix byte
encodePrefixSkipped(sch, w) == Ok(w)

\* writer.writeUint8(prefix) when metadata.prefix is set
encodePrefix(sch, w) ==
    IF sch.prefix # Undef
    THEN writeUint8(w, sch.prefix.n, w.offset, advanceDefault(w, w.offset))
    ELSE Ok(w)

\* a guard that lets every number through
NumberOutOfRangeSkipped(f, item) == FALSE

\* the min / max guard generated in front of writeBits
NumberOutOfRange(f, item) ==
    /\ f.min # Undef \/ f.max # Undef
    /\ item # Undef
    /\ \/ f.min # Undef /\ item.n < f.min.n
       \/ f.max # Undef /\ item.n > f.max.n

\* the minLength / maxLength guard of String and Buffer items
LengthOutOfRange(f, item) ==
    /\ f.minLength # Undef \/ f.maxLength # Undef
    /\ item # Undef
    /\ \/ Len(item.s) < (IF f.minLength = Undef THEN 0 ELSE f.minLength.n)
       \/ f.maxLength # Undef /\ Len(item.s) > f.maxLength.n

\* the per-item switch on field.type
encodeItem(w, f, item) ==
    CASE f.type = "Boolean" -> writeBoolean(w, Coalesce(item, f.default))
      [] f.type = "Integer" ->
            IF NumberOutOfRange(f, item) THEN Fail(w, "RangeError")
            ELSE writeBits(w, ToNumber(Coalesce(item, f.default)), f.bits.n, f.signed)
      [] f.type = "Buffer" ->
            IF item = Undef THEN Fail(w, "TypeError")
            ELSE With(writeBuffer(w, item.s, Truthy(f.includeSize)),
                      LAMBDA r : IF r.err = "none" /\ LengthOutOfRange(f, item)
                                 THEN Fail(r.w, "RangeError") ELSE r)
      [] f.type = "String" ->
            IF f.pattern # Undef /\ item # Undef /\ ~patternTest(f.pattern, item.s)
            THEN Fail(w, "Error")
            ELSE IF LengthOutOfRange(f, item) THEN Fail(w, "RangeError")
            ELSE writeString(w, Coalesce(item, Str(DefaultText(f))).s, Truthy(f.includeSize))

RECURSIVE encodeItems(_, _, _, _)
encodeItems(w, f, items, k) ==
    IF k > Len(items) THEN Ok(w)
    ELSE With(encodeItem(w, f, items[k]),
              LAMBDA r : IF r.err # "none" THEN r ELSE encodeItems(r.w, f, items, k + 1))

\* `if (write && data.dep ...)`: whether the payload of the field is written
encodeGate(f, d) ==
    IF HasDeps(f) \/ f.optional
    THEN d[f.name] # Undef /\ DependenciesTruthy(f, d)
    ELSE TRUE

\* the code generated for one field: presence bit, gate, list count, items
encodeField(w, f, d) ==
    With(IF f.optional THEN writeBoolean(w, Bool(d[f.name] # Undef)) ELSE Ok(w),
         LAMBDA r0 :
           IF r0.err # "none" \/ ~encodeGate(f, d) THEN r0
           ELSE IF f.list
                THEN IF d[f.name].t # "list" THEN Fail(r0.w, "TypeError")
                     ELSE With(writeUint16(r0.w, Len(d[f.name].l), r0.w.offset, TRUE),
                               LAMBDA r1 : IF r1.err # "none" THEN r1
                                           ELSE encodeItems(r1.w, f, d[f.name].l, 1))
                ELSE encodeItem(r0.w, f, d[f.name]))

-----------------------------------------------------------------------------
(* compileDecoder: the body of the generated decode(reader) *)

\* the per-item switch on field.type; the value is a Val
decodeItem(r, f) ==
    CASE f.type = "Boolean" ->
            With(readBoolean(r),
                 LAMBDA x : [r |-> x.r, value |-> Bool(x.value = 1), err |-> x.err])
      [] f.type = "Integer" ->
            With(readBits(r, f.bits.n, f.signed),
                 LAMBDA x : [r |-> x.r, value |-> Num(x.value), err |-> x.err])
      [] f.type = "Buffer" ->
            With(readBuffer(r, Truthy(f.includeSize)),
                 LAMBDA x : [r |-> x.r, value |-> Buf(x.value), err |-> x.err])
      [] f.type = "String" ->
            With(readString(r, Truthy(f.includeSize)),
                 LAMBDA x : [r |-> x.r, value |-> Str(x.value), err |-> x.err])

\* `for (let i = 0; i < count; i++) data.name.push(...)`
RECURSIVE decodeItems(_, _, _, _)
decodeItems(r, f, count, acc) ==
    IF count <= 0 THEN [r |-> r, value |-> List(acc), err |-> "none"]
    ELSE With(decodeItem(r, f),
              LAMBDA x :
                IF x.err # "none" THEN [r |-> x.r, value |-> List(acc), err |-> x.err]
                ELSE decodeItems(x.r, f, count - 1, Append(acc, x.value)))

\* `let read = true`, the presence bit and the `!data.dep` tests
decodeGate(r, f, dd) ==
    With(IF f.optional THEN readBoolean(r) ELSE ROk(r, 1),
         LAMBDA x :
           [r |-> x.r, err |-> x.err,
            read |-> x.value = 1
                     /\ \A k \in 1..Len(f.dependencies) : Truthy(dd[f.dependencies[k]])])

\* `if (data.name === undefined) data.name = default`, a String default being
\* the text "${field.default}"
decodeDefault(f, v) ==
    IF v # Undef THEN v
    ELSE IF f.type = "String" THEN Str(DefaultText(f)) ELSE f.default

\* `if (read) { ... }`: the list count and the items, or the single item
decodePayload(g, f) ==
    IF g.err # "none" \/ ~g.read THEN [r |-> g.r, value |-> Undef, err |-> g.err]
    ELSE IF f.list
         THEN With(readUint16(g.r, g.r.offset),
                   LAMBDA c :
                     IF c.err # "none" THEN [r |-> c.r, value |-> Undef, err |-> c.err]
                     ELSE decodeItems(c.r, f, c.value, <<>>))
         ELSE decodeItem(g.r, f)

\* the code generated for one field; `read` tells whether the payload was read
decodeField(r, f, dd) ==
    With(IF HasDeps(f) \/ f.optional THEN decodeGate(r, f, dd)
         ELSE [r |-> r, err |-> "none", read |-> TRUE],
         LAMBDA g :
           With(decodePayload(g, f),
                LAMBDA x :
                  [r |-> x.r, err |-> x.err, read |-> g.read /\ g.err = "none",
                   data |-> IF x.err # "none" THEN dd
                            ELSE [dd EXCEPT ![f.name] = decodeDefault(f, x.value)]]))

-----------------------------------------------------------------------------
(* The schema declarations and values the model draws *)

Boolean(name) == Field(name, "Boolean")
Integer(name, bits, signed) ==
    [Field(name, "Integer") EXCEPT !.bits = Num(bits), !.signed = signed]
String(name) == Field(name, "String")
Blob(name) == Field(name, "Buffer")

Widths == {1, 4, 7, 8, 12, 16}

BooleanVariants(name) ==
    {[Boolean(name) EXCEPT !.optional = o, !.default = dv] :
        o \in BOOLEAN, dv \in {Undef, Bool(TRUE), Bool(FALSE)}}
    \cup {[Boolean(name) EXCEPT !.list = TRUE, !.optional = o] : o \in BOOLEAN}

IntegerPlain(name) == {Integer(name, b, sg) : b \in Widths, sg \in BOOLEAN}

IntegerModified(name) ==
    UNION {{[Integer(name, b, sg) EXCEPT !.list = TRUE, !.optional = o],
            [Integer(name, b, sg) EXCEPT !.default = Num(1), !.optional = o]} :
              b \in {4, 8}, sg \in BOOLEAN, o \in BOOLEAN}
    \cup {[Integer(name, b, sg) EXCEPT !.optional = TRUE] : b \in {4, 8}, sg \in BOOLEAN}

StringVariants(name) ==
    {[String(name) EXCEPT !.includeSize = sz, !.optional = o, !.default = dv] :
        sz \in {Undef, Bool(FALSE)}, o \in BOOLEAN, dv \in {Undef, Str(<<72>>)}}
    \cup {[String(name) EXCEPT !.list = TRUE, !.optional = o] : o \in BOOLEAN}

BlobVariants(name) ==
    {[Blob(name) EXCEPT !.includeSize = sz, !.optional = o] :
        sz \in {Undef, Bool(FALSE)}, o \in BOOLEAN}
    \cup {[Blob(name) EXCEPT !.list = TRUE, !.optional = o] : o \in BOOLEAN}

Variants(name) ==
    BooleanVariants(name) \cup IntegerPlain(name) \cup IntegerModified(name)
    \cup StringVariants(name) \cup BlobVariants(name)

BitGranular(name) == {Boolean(name)} \cup IntegerPlain(name)

Schema(fields) == [fields |-> fields, prefix |-> Undef]

\* one field of every variant, alone or behind the prefix byte
SingleField ==
    {Schema(<<f>>) : f \in Variants("a")}
    \cup {[fields |-> <<f>>, prefix |-> Num(66)] :
            f \in {Boolean("a"), Integer("a", 8, TRUE), String("a")}}

\* a Boolean flag and a field that depends on it, declared in either order
\* (a list is not put behind a flag that defaults to true: the decoder then
\* takes its 16-bit count from unwritten bytes and loops that many times)
Gated ==
    {Schema(<<p[1], [p[2] EXCEPT !.dependencies = <<"a">>]>>) :
        p \in {q \in {x \in BooleanVariants("a") : ~x.list} \X Variants("b") :
                  ~(q[1].default = Bool(TRUE) /\ q[2].list)}}
    \cup {Schema(<<[f EXCEPT !.dependencies = <<"a">>], Boolean("a")>>) :
            f \in {Integer("b", 4, FALSE), String("b")}}

\* two bit-granular fields next to each other
Packed == {Schema(<<x, y>>) : x \in BitGranular("a"), y \in BitGranular("b")}

\* a flag that is itself gated, and the field it gates
Chained ==
    {Schema(<<Boolean("a"), [g EXCEPT !.dependencies = <<"a">>],
              [f EXCEPT !.dependencies = <<"b">>]>>) :
        g \in {Boolean("b"), [Boolean("b") EXCEPT !.default = Bool(TRUE)]},
        f \in {Integer("c", 8, FALSE), String("c")}}

\* Integer fields that declare min and / or max
IntegerBounded(name) ==
    {[Integer(name, b, sg) EXCEPT !.min = bd[1], !.max = bd[2], !.list = l, !.optional = o] :
        b \in {4, 8}, sg \in BOOLEAN, l \in BOOLEAN, o \in BOOLEAN,
        bd \in {<<Num(1), Undef>>, <<Undef, Num(8)>>, <<Num(1), Num(8)>>}}
    \cup {[Integer(name, 4, sg) EXCEPT !.min = Num(1), !.max = Num(8), !.default = Num(5)] :
            sg \in BOOLEAN}

\* a bounded Integer alone, or behind a Boolean flag
Bounded ==
    {Schema(<<f>>) : f \in IntegerBounded("a")}
    \cup {Schema(<<Boolean("a"), [f EXCEPT !.dependencies = <<"a">>]>>) :
            f \in {x \in IntegerBounded("b") : x.bits.n = 4 /\ ~x.signed /\ ~x.optional}}

\* the schemas of the documented scenarios and of the packing law
Scenarios ==
    {Schema(<<Boolean("a"), Boolean("b"), Boolean("c")>>),
     [fields |-> <<Integer("a", 4, FALSE), Boolean("b")>>, prefix |-> Num(66)],
     Schema([k \in 1..7 |-> Integer(<<"a", "b", "c", "d", "e", "f", "g">>[k], 1, FALSE)]),
     Schema(<<[Boolean("a") EXCEPT !.optional = TRUE],
              [Boolean("b") EXCEPT !.optional = TRUE],
              [Boolean("c") EXCEPT !.optional = TRUE]>>),
     Schema(<<Boolean("a"), String("b"), Integer("c", 12, FALSE)>>),
     Schema(<<Integer("a", 4, TRUE), Blob("b"), Integer("c", 8, TRUE)>>)}

\* declarations defineSchemas must refuse
Refused ==
    {Schema(<<[Boolean("a") EXCEPT !.dependencies = <<"a">>]>>),
     Schema(<<[Boolean("a") EXCEPT !.dependencies = <<"b">>],
              [Boolean("b") EXCEPT !.dependencies = <<"a">>]>>),
     Schema(<<[Boolean("a") EXCEPT !.dependencies = <<"b">>]>>),
     Schema(<<Integer("a", 8, FALSE), [Boolean("b") EXCEPT !.dependencies = <<"a">>]>>),
     Schema(<<Field("a", "Integer")>>),
     Schema(<<[String("a") EXCEPT !.list = TRUE, !.includeSize = Bool(FALSE)]>>)}

Declarations ==
    SingleField \cup Gated \cup Packed \cup Chained \cup Scenarios \cup Refused \cup Bounded

SeqsUpTo(S, n) == UNION {[1..k -> S] : k \in 0..n}

IntegerSamples(bits, signed) ==
    {v \in {rangeMin(bits, signed), rangeMax(bits, signed), 0, -1, 5, 291} :
        v >= rangeMin(bits, signed) /\ v <= rangeMax(bits, signed)}

\* the values drawn for one item of a field
ItemSamples(f) ==
    CASE f.type = "Boolean" -> {Bool(TRUE), Bool(FALSE)}
      [] f.type = "Integer" ->
            IF f.bits = Undef THEN {Num(0)}
            ELSE IF f.list
                 THEN {Num(rangeMin(f.bits.n, f.signed)), Num(rangeMax(f.bits.n, f.signed))}
                 ELSE {Num(v) : v \in IntegerSamples(f.bits.n, f.signed)}
      [] f.type = "String" ->
            IF f.list THEN {Str(<<72>>), Str(<<233, 72>>)}
            ELSE {Str(t) : t \in SeqsUpTo({72, 233}, MaxTextLen)}
      [] f.type = "Buffer" ->
            IF f.list THEN {Buf(<<0>>), Buf(<<255>>)}
            ELSE {Buf(b) : b \in SeqsUpTo({0, 255}, MaxBlobLen)}

\* a field the caller may leave out: optional, defaulted, or gated by a dependency
MayOmit(f) == f.optional \/ f.default # Undef \/ HasDeps(f)

FieldValues(f) ==
    (IF f.list THEN {List(l) : l \in SeqsUpTo(ItemSamples(f), MaxListLen)}
     ELSE ItemSamples(f))
    \cup (IF MayOmit(f) THEN {Undef} ELSE {})

DataFor(fields) ==
    {d \in [FieldNames(fields) -> UNION {FieldValues(fields[k]) : k \in 1..Len(fields)}] :
        \A k \in 1..Len(fields) : d[fields[k].name] \in FieldValues(fields[k])}

\* what the bytes allocUnsafe left unwritten may turn out to hold
GarbageBytes == {0, 1}

-----------------------------------------------------------------------------
(* The state machine: defineSchemas, then encode(data), then decode(reader) *)

NoSchema ==
    [err |-> "none", msg |-> "none", field |-> "", fields |-> <<>>, prefix |-> Undef,
     bitLength |-> 0]
NoEnc == [w |-> newBufferWriter(0, TRUE), bitLength |-> 0, i |-> 0, emitted |-> {},
          err |-> "none"]
NoPrim == [call |-> "none"]
NoDec == [r |-> newBufferReader(<<>>), data |-> <<>>, i |-> 0, read |-> {}, err |-> "none"]

Init ==
    /\ declared \in Declarations
    /\ data \in DataFor(declared.fields)
    /\ pc = "declared"
    /\ schema = NoSchema
    /\ enc = NoEnc
    /\ out = <<>>
    /\ dec = NoDec
    /\ prim = NoPrim

\* defineSchemas({S: declared})
Define ==
    /\ pc = "declared"
    /\ schema' = defineSchemas(declared)
    /\ pc' = IF schema'.err = "none" THEN "defined" ELSE "rejected"
    /\ UNCHANGED <<declared, data, enc, out, dec, prim>>

\* encode(data) entered without a writer: allocation, then the prefix byte
EncodeBegin ==
    /\ pc = "defined"
    /\ \E a \in {encodeAllocate(schema, data)} :
       \E p \in {encodePrefix(schema, a.w)} :
       \E e \in {IF a.err # "none" THEN a.err ELSE p.err} :
          /\ enc' = [w |-> p.w, bitLength |-> a.bitLength, i |-> 1, emitted |-> {},
                     err |-> e]
          /\ pc' = IF e = "none" THEN "encoding" ELSE "encodeThrew"
    /\ UNCHANGED <<declared, data, schema, out, dec, prim>>

\* the code generated for the next field of the frozen order
EncodeField ==
    /\ pc = "encoding"
    /\ enc.i <= Len(schema.fields)
    /\ \E f \in {schema.fields[enc.i]} :
       \E r \in {encodeField(enc.w, f, data)} :
          /\ enc' = [enc EXCEPT !.w = r.w, !.i = @ + 1, !.err = r.err,
                                !.emitted = IF r.err = "none" /\ encodeGate(f, data)
                                            THEN @ \cup {f.name} ELSE @]
          /\ pc' = IF r.err = "none" THEN "encoding" ELSE "encodeThrew"
    /\ UNCHANGED <<declared, data, schema, out, dec, prim>>

\* `return writer.bytes`
EncodeReturn ==
    /\ pc = "encoding"
    /\ enc.i > Len(schema.fields)
    /\ out' = enc.w.buffer
    /\ pc' = "encoded"
    /\ UNCHANGED <<declared, data, schema, enc, dec, prim>>

\* decode(new BufferReader(bytes)); a byte encode never wrote holds anything
DecodeBegin ==
    /\ pc = "encoded"
    /\ \E g \in GarbageBytes :
          dec' = [r |-> newBufferReader([k \in 1..Len(out) |->
                                            IF out[k] = Uninit THEN g ELSE out[k]]),
                  data |-> [n \in FieldNames(schema.fields) |-> Undef],
                  i |-> 1, read |-> {}, err |-> "none"]
    /\ pc' = "decoding"
    /\ UNCHANGED <<declared, data, schema, enc, out, prim>>

DecodeField ==
    /\ pc = "decoding"
    /\ dec.i <= Len(schema.fields)
    /\ \E f \in {schema.fields[dec.i]} :
       \E x \in {decodeField(dec.r, f, dec.data)} :
          /\ dec' = [dec EXCEPT !.r = x.r, !.data = x.data, !.i = @ + 1, !.err = x.err,
                                !.read = IF x.err = "none" /\ x.read
                                         THEN @ \cup {f.name} ELSE @]
          /\ pc' = IF x.err = "none" THEN "decoding" ELSE "decodeThrew"
    /\ UNCHANGED <<declared, data, schema, enc, out, prim>>

\* `return data`
DecodeReturn ==
    /\ pc = "decoding"
    /\ dec.i > Len(schema.fields)
    /\ pc' = "decoded"
    /\ UNCHANGED <<declared, data, schema, enc, out, dec, prim>>

Next ==
    \/ Define
    \/ EncodeBegin
    \/ EncodeField
    \/ EncodeReturn
    \/ DecodeBegin
    \/ DecodeField
    \/ DecodeReturn

Spec == Init /\ [][Next]_vars

-----------------------------------------------------------------------------
(* defineSchemas alone, over declarations that exercise its validation *)

\* the dependency lists a Boolean field is declared with; "x" names no field
DependencyLists == {<<>>, <<"a">>, <<"b">>, <<"c">>, <<"x">>, <<"b", "c">>, <<"c", "x">>}

\* three Boolean fields and every way of drawing their dependency lists
DependencyGraphs ==
    {Schema(<<[Boolean("a") EXCEPT !.dependencies = da],
              [Boolean("b") EXCEPT !.dependencies = db],
              [Boolean("c") EXCEPT !.dependencies = dc]>>) :
        da \in DependencyLists, db \in DependencyLists, dc \in DependencyLists}

\* a field of each kind, with a second field that names it as a dependency,
\* declared before or after it
TypedDependency ==
    UNION {{Schema(<<t, [g EXCEPT !.dependencies = <<"a">>]>>),
            Schema(<<[g EXCEPT !.dependencies = <<"a">>], t>>)} :
              t \in {Boolean("a"), Integer("a", 8, FALSE), String("a"), Blob("a")},
              g \in {Boolean("b"), Integer("b", 4, FALSE)}}

\* Integer declarations around the limits of bits, and of default against
\* min / max
IntegerDeclarations ==
    {Schema(<<[Field("a", "Integer") EXCEPT !.bits = b]>>) :
        b \in {Undef, Num(-1), Num(0), Num(1), Num(52), Num(53), Num(54), Num(64)}}
    \cup {Schema(<<[Integer("a", 8, sg) EXCEPT !.default = dv, !.min = lo, !.max = hi]>>) :
            sg \in BOOLEAN, dv \in {Undef, Num(0), Num(1), Num(5), Num(8), Num(9)},
            lo \in {Undef, Num(1)}, hi \in {Undef, Num(8)}}

\* String declarations around default against minLength / maxLength / pattern
StringDeclarations ==
    {Schema(<<[String("a") EXCEPT !.default = dv, !.minLength = lo, !.maxLength = hi,
                                  !.pattern = pt]>>) :
        dv \in {Undef, Str(<<>>), Str(<<72>>), Str(<<233>>), Str(<<72, 72, 72>>)},
        lo \in {Undef, Num(1)}, hi \in {Undef, Num(2)}, pt \in {Undef, OnlyH}}

DefinitionCases ==
    Declarations \cup DependencyGraphs \cup TypedDependency \cup IntegerDeclarations
    \cup StringDeclarations

InitDefine ==
    /\ declared \in DefinitionCases
    /\ data = [n \in FieldNames(declared.fields) |-> Undef]
    /\ pc = "declared"
    /\ schema = NoSchema
    /\ enc = NoEnc
    /\ out = <<>>
    /\ dec = NoDec
    /\ prim = NoPrim

\* the schema has no encode / decode until defineSchemas returns: the only step
NextDefine == Define

SpecDefine == InitDefine /\ [][NextDefine]_vars

-----------------------------------------------------------------------------
(* toPrecision and fromPrecision called on their own *)

\* the arguments drawn: bits from 0 (refused) up, intervals from the reversed
\* one (refused by clamp) and the empty one up, values from below the minimum
\* to above the maximum; minimum either passed or left to its default
PrecisionCalls ==
    {[value |-> v, maximum |-> lo + span, bits |-> b, signed |-> sg, minimum |-> lo] :
        v \in -5..(MaxSpan + 4), lo \in {-4, 0, 3}, span \in -1..MaxSpan,
        b \in 0..MaxPrecisionBits, sg \in BOOLEAN}
    \cup {[value |-> v, maximum |-> hi, bits |-> b, signed |-> sg,
           minimum |-> minimumDefault(sg, hi)] :
            v \in -5..(MaxSpan + 4), hi \in 1..(MaxSpan \div 2),
            b \in 1..MaxPrecisionBits, sg \in BOOLEAN}

InitPrecision ==
    /\ prim \in {[call |-> "none", args |-> c, encoded |-> 0,
                  decoded |-> NotFinite("NaN"), err |-> "none"] :
                    c \in {x \in PrecisionCalls :
                              x.value >= x.minimum - 1 /\ x.value <= x.maximum + 1}}
    /\ pc = "precision"
    /\ declared = Schema(<<>>)
    /\ data = <<>>
    /\ schema = NoSchema
    /\ enc = NoEnc
    /\ out = <<>>
    /\ dec = NoDec

\* encoded = BufferWriter.toPrecision(value, maximum, bits, signed, minimum)
ToPrecision ==
    /\ pc = "precision"
    /\ \E r \in {toPrecision(prim.args.value, prim.args.maximum, prim.args.bits,
                             prim.args.signed, prim.args.minimum)} :
          /\ prim' = [prim EXCEPT !.call = "toPrecision", !.encoded = r.value,
                                  !.err = r.err]
          /\ pc' = IF r.err = "none" THEN "quantized" ELSE "precisionThrew"
    /\ UNCHANGED <<declared, data, schema, enc, out, dec>>

\* decoded = BufferReader.fromPrecision(encoded, maximum, bits, signed, minimum)
FromPrecision ==
    /\ pc = "quantized"
    /\ \E r \in {fromPrecision(prim.encoded, prim.args.maximum, prim.args.bits,
                               prim.args.signed, prim.args.minimum)} :
          /\ prim' = [prim EXCEPT !.call = "fromPrecision", !.decoded = r.value,
                                  !.err = r.err]
          /\ pc' = IF r.err = "none" THEN "restored" ELSE "precisionThrew"
    /\ UNCHANGED <<declared, data, schema, enc, out, dec>>

NextPrecision ==
    \/ ToPrecision
    \/ FromPrecision

SpecPrecision == InitPrecision /\ [][NextPrecision]_vars

-----------------------------------------------------------------------------
(* A BufferWriter used on its own *)

\* the values handed to writeBits: the ends of the range of the width, the
\* numbers next to them outside the range, and two numbers inside
WriteSamples(bits, signed) ==
    {rangeMin(bits, signed) - 1, rangeMin(bits, signed), 0, 5,
     rangeMax(bits, signed), rangeMax(bits, signed) + 1}

\* new BufferWriter() and new BufferWriter(WriterBytes)
InitWriter ==
    /\ prim \in {[call |-> "none", w |-> newBufferWriter(n, TRUE),
                  before |-> newBufferWriter(n, TRUE),
                  value |-> 0, bits |-> 0, signed |-> FALSE, err |-> "none", calls |-> 0] :
                    n \in {0, WriterBytes}}
    /\ pc = "writer"
    /\ declared = Schema(<<>>)
    /\ data = <<>>
    /\ schema = NoSchema
    /\ enc = NoEnc
    /\ out = <<>>
    /\ dec = NoDec

\* writer.writeBits(value, bits, signed); an exception leaves the writer usable
WriteBits ==
    /\ pc = "writer"
    /\ prim.calls < MaxCalls
    /\ \E bits \in {1, 3, 8, 16}, signed \in BOOLEAN :
       \E value \in WriteSamples(bits, signed) :
       \E r \in {writeBits(prim.w, value, bits, signed)} :
          prim' = [call |-> "writeBits", w |-> r.w, before |-> prim.w, value |-> value,
                   bits |-> bits, signed |-> signed, err |-> r.err,
                   calls |-> prim.calls + 1]
    /\ UNCHANGED <<declared, data, pc, schema, enc, out, dec>>

\* writer.writeUint8(value)
WriteUint8 ==
    /\ pc = "writer"
    /\ prim.calls < MaxCalls
    /\ \E value \in {0, 255} :
       \E r \in {writeUint8(prim.w, value, prim.w.offset, TRUE)} :
          prim' = [call |-> "writeUint8", w |-> r.w, before |-> prim.w, value |-> value,
                   bits |-> 8, signed |-> FALSE, err |-> r.err,
                   calls |-> prim.calls + 1]
    /\ UNCHANGED <<declared, data, pc, schema, enc, out, dec>>

\* writer.writeUint16(value)
WriteUint16 ==
    /\ pc = "writer"
    /\ prim.calls < MaxCalls
    /\ \E value \in {1234} :
       \E r \in {writeUint16(prim.w, value, prim.w.offset, TRUE)} :
          prim' = [call |-> "writeUint16", w |-> r.w, before |-> prim.w, value |-> value,
                   bits |-> 16, signed |-> FALSE, err |-> r.err,
                   calls |-> prim.calls + 1]
    /\ UNCHANGED <<declared, data, pc, schema, enc, out, dec>>

\* writer.writeBoolean(value) in bit mode
WriteBoolean ==
    /\ pc = "writer"
    /\ prim.calls < MaxCalls
    /\ \E value \in BOOLEAN :
       \E r \in {writeBoolean(prim.w, Bool(value))} :
          prim' = [call |-> "writeBoolean", w |-> r.w, before |-> prim.w,
                   value |-> IF value THEN 1 ELSE 0,
                   bits |-> 1, signed |-> FALSE, err |-> r.err,
                   calls |-> prim.calls + 1]
    /\ UNCHANGED <<declared, data, pc, schema, enc, out, dec>>

NextWriter ==
    \/ WriteBits
    \/ WriteUint8
    \/ WriteUint16
    \/ WriteBoolean

SpecWriter == InitWriter /\ [][NextWriter]_vars

-----------------------------------------------------------------------------
(* A BufferReader used on its own *)

\* the byte arrays read: 2 is a length prefix, 129 has its top bit set
ReaderBuffers == SeqsUpTo({0, 2, 129}, MaxReaderBytes) \cup {<<2, 0, 72, 73>>}

NoArgs == [bits |-> 0, signed |-> FALSE, byte |-> FALSE, size |-> Undef, adv |-> TRUE]

\* new BufferReader(bytes)
InitReader ==
    /\ prim \in {[call |-> "none", r |-> newBufferReader(b), before |-> newBufferReader(b),
                  args |-> NoArgs, value |-> 0, err |-> "none", calls |-> 0] :
                    b \in ReaderBuffers}
    /\ pc = "reader"
    /\ declared = Schema(<<>>)
    /\ data = <<>>
    /\ schema = NoSchema
    /\ enc = NoEnc
    /\ out = <<>>
    /\ dec = NoDec

\* the record of a call: the reader as the call left it, as it found it, the
\* arguments, and the value returned or the error thrown
Called(name, args, x) ==
    [call |-> name, r |-> x.r, before |-> prim.r, args |-> args, value |-> x.value,
     err |-> x.err, calls |-> prim.calls + 1]

\* reader.readBits(bits, signed, advance)
ReadBits ==
    /\ pc = "reader"
    /\ prim.calls < MaxReads
    /\ \E bits \in {1, 3, 8, 12, 16}, signed \in BOOLEAN, adv \in BOOLEAN :
          prim' = Called("readBits",
                         [NoArgs EXCEPT !.bits = bits, !.signed = signed, !.adv = adv],
                         reader_readBits(prim.r, bits, signed, adv, prim.r.bitOffset))
    /\ UNCHANGED <<declared, data, pc, schema, enc, out, dec>>

\* reader.readBoolean(byte, advance)
ReadBoolean ==
    /\ pc = "reader"
    /\ prim.calls < MaxReads
    /\ \E byte \in BOOLEAN, adv \in BOOLEAN :
          prim' = Called("readBoolean", [NoArgs EXCEPT !.byte = byte, !.adv = adv],
                         reader_readBoolean(prim.r, byte, adv, prim.r.offset))
    /\ UNCHANGED <<declared, data, pc, schema, enc, out, dec>>

\* reader.readUint8(advance)
ReadUint8 ==
    /\ pc = "reader"
    /\ prim.calls < MaxReads
    /\ \E adv \in BOOLEAN :
          prim' = Called("readUint8", [NoArgs EXCEPT !.adv = adv],
                         reader_readUint8(prim.r, adv, prim.r.offset))
    /\ UNCHANGED <<declared, data, pc, schema, enc, out, dec>>

\* reader.readInt8(advance)
ReadInt8 ==
    /\ pc = "reader"
    /\ prim.calls < MaxReads
    /\ \E adv \in BOOLEAN :
          prim' = Called("readInt8", [NoArgs EXCEPT !.adv = adv],
                         reader_readInt8(prim.r, adv, prim.r.offset))
    /\ UNCHANGED <<declared, data, pc, schema, enc, out, dec>>

\* reader.readUint16(advance)
ReadUint16 ==
    /\ pc = "reader"
    /\ prim.calls < MaxReads
    /\ \E adv \in BOOLEAN :
          prim' = Called("readUint16", [NoArgs EXCEPT !.adv = adv],
                         reader_readUint16(prim.r, adv, prim.r.offset))
    /\ UNCHANGED <<declared, data, pc, schema, enc, out, dec>>

\* reader.readInt16(advance)
ReadInt16 ==
    /\ pc = "reader"
    /\ prim.calls < MaxReads
    /\ \E adv \in BOOLEAN :
          prim' = Called("readInt16", [NoArgs EXCEPT !.adv = adv],
                         reader_readInt16(prim.r, adv, prim.r.offset))
    /\ UNCHANGED <<declared, data, pc, schema, enc, out, dec>>

\* reader.readUint(advance)
ReadUint ==
    /\ pc = "reader"
    /\ prim.calls < MaxReads
    /\ \E adv \in BOOLEAN :
          prim' = Called("readUint", [NoArgs EXCEPT !.adv = adv],
                         reader_readUint(prim.r, adv, prim.r.offset))
    /\ UNCHANGED <<declared, data, pc, schema, enc, out, dec>>

\* reader.readInt(advance)
ReadInt ==
    /\ pc = "reader"
    /\ prim.calls < MaxReads
    /\ \E adv \in BOOLEAN :
          prim' = Called("readInt", [NoArgs EXCEPT !.adv = adv],
                         reader_readInt(prim.r, adv, prim.r.offset))
    /\ UNCHANGED <<declared, data, pc, schema, enc, out, dec>>

\* reader.readBuffer(size, false, advance)
ReadBuffer ==
    /\ pc = "reader"
    /\ prim.calls < MaxReads
    /\ \E size \in {Bool(TRUE), Undef, Num(1), Num(2)}, adv \in BOOLEAN :
          prim' = Called("readBuffer", [NoArgs EXCEPT !.size = size, !.adv = adv],
                         reader_readBuffer(prim.r, size, adv, prim.r.offset))
    /\ UNCHANGED <<declared, data, pc, schema, enc, out, dec>>

\* reader.readString(size, advance)
ReadString ==
    /\ pc = "reader"
    /\ prim.calls < MaxReads
    /\ \E size \in {Bool(TRUE), Undef, Num(1), Num(2)}, adv \in BOOLEAN :
          prim' = Called("readString", [NoArgs EXCEPT !.size = size, !.adv = adv],
                         reader_readString(prim.r, size, adv, prim.r.offset))
    /\ UNCHANGED <<declared, data, pc, schema, enc, out, dec>>

NextReader ==
    \/ ReadBits
    \/ ReadBoolean
    \/ ReadUint8
    \/ ReadInt8
    \/ ReadUint16
    \/ ReadInt16
    \/ ReadUint
    \/ ReadInt
    \/ ReadBuffer
    \/ ReadString

SpecReader == InitReader /\ [][NextReader]_vars

-----------------------------------------------------------------------------
(* writeBits and readBits on numbers of up to 53 bits *)

\* A non-negative integer below 2^53 is the sequence of its 53 binary digits,
\* lowest first.  The bit operators of the language work on 32 bits: `x & m`
\* and `x << n` convert x with ToInt32, `x >>> n` with ToUint32, and a shift
\* count is taken modulo 32.

\* the widest number rangeMax / rangeMin accept
WideBits == 53

\* the number whose binary digits 1 are at the positions in S
Digits(S, n) == [i \in 1..n |-> IF (i - 1) \in S THEN 1 ELSE 0]

\* the number of the n lowest digits of u, for a small n
RECURSIVE IntOf(_, _)
IntOf(u, n) == IF n = 0 THEN 0 ELSE u[n] * (2 ^ (n - 1)) + IntOf(u, n - 1)

\* u >>> n
Ushr(u, n) == [i \in 1..WideBits |-> IF i + n <= 32 THEN u[i + n] ELSE 0]

\* acc | (e << s) on int32, e a byte
OrShl(acc, e, s) ==
    LET k == s % 32
    IN [i \in 1..32 |->
          IF acc[i] = 1 \/ (i - 1 >= k /\ i - 1 - k < 8 /\ Shr(e, i - 1 - k) % 2 = 1)
          THEN 1 ELSE 0]

\* the four bytes of a 32-bit pattern as DataView.setUint32 / setInt32 store them
Bytes32Of(p, littleEndian) ==
    LET b(k) == IntOf([j \in 1..8 |-> p[8 * k + j]], 8)
    IN IF littleEndian THEN <<b(0), b(1), b(2), b(3)>> ELSE <<b(3), b(2), b(1), b(0)>>

\* the 32-bit pattern DataView.getUint32 / getInt32 read at offset
Pattern32(r, offset) ==
    [i \in 1..32 |->
        LET k == (i - 1) \div 8
            byte == r.buffer[offset + 1 + (IF r.endianness THEN k ELSE 3 - k)]
        IN Shr(byte, (i - 1) % 8) % 2]

\* the `while (bits > 0)` loop of writeBits on a number of up to 53 bits
RECURSIVE wide_writeBitsLoop(_, _, _, _, _, _)
wide_writeBitsLoop(buffer, value, bits, byteOffset, bitOffset, bitIndex) ==
    IF bits <= 0
    THEN [buffer |-> buffer, byteOffset |-> byteOffset, bitOffset |-> bitOffset,
          bitIndex |-> bitIndex]
    ELSE LET bo == IF bitIndex = 0 THEN byteOffset ELSE bitOffset
             by == IF bitIndex = 0 THEN byteOffset + 1 ELSE byteOffset
             bitsToWrite == Min(bits, 8 - bitIndex)
             bitsValue == IntOf(value, bitsToWrite)
             stored == IF bitIndex = 0 /\ bitsToWrite = 8 THEN bitsValue
                       ELSE OrByte(IF bitIndex = 0 THEN 0 ELSE ByteAt(buffer, bo),
                                   Shl(bitsValue, bitIndex))
         IN wide_writeBitsLoop(SetByte(buffer, bo, stored), Ushr(value, bitsToWrite),
                               bits - bitsToWrite, by, bo, (bitIndex + bitsToWrite) % 8)

\* writeBits(value, bits, signed) for a value within the range of the width.
\* `u` is value - rangeMin(bits, signed), which is below 2^bits; on the
\* aligned 32-bit path the value itself is stored, whose two's complement
\* pattern is u with the top digit flipped when signed.
wide_writeBits(w, u, bits, signed) ==
    IF w.bitIndex = 0 /\ w.bitOffset = w.offset /\ bits = 32
    THEN With(advance(w, 4, w.offset, TRUE),
              LAMBDA r :
                IF r.err # "none" THEN r
                ELSE Ok([r.w EXCEPT !.buffer =
                           SetBytes(@, w.offset,
                                    Bytes32Of([i \in 1..32 |->
                                                 IF i = 32 /\ signed THEN 1 - u[i] ELSE u[i]],
                                              w.endianness))]))
    ELSE IF InvalidBits(bits) THEN Fail(w, "RangeError")
    ELSE With(wide_writeBitsLoop(w.buffer, u, bits, w.offset, w.bitOffset, w.bitIndex),
              LAMBDA r : Ok([w EXCEPT !.buffer = r.buffer, !.offset = r.byteOffset,
                                      !.bitOffset = r.bitOffset, !.bitIndex = r.bitIndex]))

\* the `while (bitsRead < bits)` loop of readBits; `value` is an int32
RECURSIVE wide_readBitsLoop(_, _, _, _, _, _, _)
wide_readBitsLoop(buffer, value, bitsRead, bits, byteOffset, bitOffset, bitIndex) ==
    IF bitsRead >= bits
    THEN [value |-> value, byteOffset |-> byteOffset, bitOffset |-> bitOffset,
          bitIndex |-> bitIndex]
    ELSE LET bo == IF bitIndex = 0 THEN byteOffset ELSE bitOffset
             by == IF bitIndex = 0 THEN byteOffset + 1 ELSE byteOffset
             bitsToRead == Min(bits - bitsRead, 8 - bitIndex)
             currentByte == ByteAt(buffer, bo)
             extractedBits == LowBits(Shr(currentByte, bitIndex), bitsToRead)
         IN wide_readBitsLoop(buffer, OrShl(value, extractedBits, bitsRead),
                              bitsRead + bitsToRead, bits, by, bo,
                              (bitIndex + bitsToRead) % 8)

\* readBits(bits, signed).  The number returned is given by a 32-bit pattern
\* and the way it is read: "uint32" (value >>> 0, getUint32), "int32"
\* (getInt32), or "int32+min" (the int32 of the loop plus rangeMin).
wide_readBits(r, bits, signed) ==
    IF r.bitIndex = 0 /\ r.bitOffset = r.offset /\ bits = 32
    THEN IF OutsideView(r, r.bitOffset, 4) THEN RFail(r, "RangeError")
         ELSE ROk(reader_advance(r, 4, r.bitOffset, TRUE),
                  [kind |-> IF signed THEN "int32" ELSE "uint32",
                   pattern |-> Pattern32(r, r.bitOffset)])
    ELSE IF signed /\ InvalidBits(bits) THEN RFail(r, "RangeError")
    ELSE With(wide_readBitsLoop(r.buffer, Digits({}, 32), 0, bits, r.offset, r.bitOffset,
                                r.bitIndex),
              LAMBDA x : ROk([r EXCEPT !.offset = x.byteOffset, !.bitOffset = x.bitOffset,
                                       !.bitIndex = x.bitIndex],
                             [kind |-> IF signed THEN "int32+min" ELSE "uint32",
                              pattern |-> x.value]))

-----------------------------------------------------------------------------
(* A BufferWriter and a BufferReader over the same bytes *)

\* the widths written and read
PairWidths == {1, 3, 8, 16, 31, 32, 33, WideBits}

\* the numbers written, as value - rangeMin: 0, 1, 5, 2^(bits-1), 2^bits - 1,
\* and 2^31, 2^32 where the width has them
PairSamples(bits) ==
    {Digits(S, WideBits) :
        S \in {T \in {{}, {0}, {0, 2}, {bits - 1}, 0..(bits - 1), {31}, {32}} :
                 \A i \in T : i < bits}}

\* new BufferWriter(PairBytes) and new BufferReader(writer)
InitPair ==
    /\ prim = [call |-> "none",
               w |-> newBufferWriter(PairBytes, TRUE),
               r |-> newBufferReader(createBuffer(PairBytes)),
               wbefore |-> newBufferWriter(PairBytes, TRUE),
               rbefore |-> newBufferReader(createBuffer(PairBytes)),
               bits |-> 0, signed |-> FALSE, value |-> Digits({}, WideBits),
               result |-> [kind |-> "number", n |-> 0], werr |-> "none", rerr |-> "none",
               calls |-> 0]
    /\ pc = "pair"
    /\ declared = Schema(<<>>)
    /\ data = <<>>
    /\ schema = NoSchema
    /\ enc = NoEnc
    /\ out = <<>>
    /\ dec = NoDec

\* the reader sees the bytes of the writer
Sees(r, w) == [r EXCEPT !.buffer = w.buffer]

\* writer.writeBits(value, bits, signed); reader.readBits(bits, signed)
WriteReadBits ==
    /\ pc = "pair"
    /\ prim.calls < MaxPairs
    /\ \E bits \in PairWidths, signed \in BOOLEAN :
       \E u \in PairSamples(bits) :
       \E wr \in {IF bits <= 16
                  THEN writeBits(prim.w, IntOf(u, bits) + rangeMin(bits, signed), bits, signed)
                  ELSE wide_writeBits(prim.w, u, bits, signed)} :
       \E rd \in {IF bits <= 16
                  THEN With(readBits(Sees(prim.r, wr.w), bits, signed),
                            LAMBDA x : [x EXCEPT !.value = [kind |-> "number", n |-> @]])
                  ELSE wide_readBits(Sees(prim.r, wr.w), bits, signed)} :
          prim' = [call |-> "bits", w |-> wr.w, r |-> rd.r, wbefore |-> prim.w,
                   rbefore |-> prim.r, bits |-> bits, signed |-> signed, value |-> u,
                   result |-> rd.value, werr |-> wr.err, rerr |-> rd.err,
                   calls |-> prim.calls + 1]
    /\ UNCHANGED <<declared, data, pc, schema, enc, out, dec>>

\* writer.writeUint8(value); reader.readUint8()
WriteReadUint8 ==
    /\ pc = "pair"
    /\ prim.calls < MaxPairs
    /\ \E value \in {0, 255} :
       \E wr \in {writeUint8(prim.w, value, prim.w.offset, TRUE)} :
       \E rd \in {readUint8(Sees(prim.r, wr.w), prim.r.offset)} :
          prim' = [call |-> "uint8", w |-> wr.w, r |-> rd.r, wbefore |-> prim.w,
                   rbefore |-> prim.r, bits |-> 8, signed |-> FALSE,
                   value |-> Digits({i \in 0..7 : value = 255}, WideBits),
                   result |-> [kind |-> "number", n |-> rd.value], werr |-> wr.err,
                   rerr |-> rd.err, calls |-> prim.calls + 1]
    /\ UNCHANGED <<declared, data, pc, schema, enc, out, dec>>

NextPair ==
    \/ WriteReadBits
    \/ WriteReadUint8

SpecPair == InitPair /\ [][NextPair]_vars

-----------------------------------------------------------------------------
(* clone() of a BufferWriter and of a BufferReader *)

\* The byte arrays live in `heap`; every writer and reader holds the index of
\* its array (wid, cid, rid, rcid), and its `buffer` field is the content of
\* that array.  Two objects with the same index share the bytes.

\* writer.clone(reset): new BufferWriter(this, this.resizable, true) takes
\* the writer's own array (createBuffer returns allocation.buffer and `clone`
\* is left false) and passes true as littleEndian
writer_clone(w, reset) ==
    IF reset THEN [w EXCEPT !.endianness = TRUE, !.bitOffset = 0, !.bitIndex = 0, !.offset = 0]
    ELSE [w EXCEPT !.endianness = TRUE]

\* reader.clone(reset): new BufferReader(this.buffer, true) copies the bytes
reader_clone(r, reset) ==
    IF reset THEN [r EXCEPT !.endianness = TRUE, !.bitOffset = 0, !.bitIndex = 0, !.offset = 0]
    ELSE [r EXCEPT !.endianness = TRUE]

\* new BufferWriter(n); new BufferReader(writer): the reader takes the
\* writer's array
InitClone ==
    /\ prim \in {[call |-> "none", target |-> "none", reset |-> FALSE,
                  w |-> newBufferWriter(n, TRUE), c |-> newBufferWriter(n, TRUE),
                  r |-> newBufferReader(createBuffer(n)),
                  rc |-> newBufferReader(createBuffer(n)),
                  wid |-> 1, cid |-> 0, rid |-> 1, rcid |-> 0,
                  heap |-> <<createBuffer(n)>>,
                  before |-> [w |-> <<>>, c |-> <<>>, r |-> <<>>, rc |-> <<>>],
                  err |-> "none", calls |-> 0] :
                    n \in {0, WriterBytes}}
    /\ pc = "clone"
    /\ declared = Schema(<<>>)
    /\ data = <<>>
    /\ schema = NoSchema
    /\ enc = NoEnc
    /\ out = <<>>
    /\ dec = NoDec

\* the bytes each object sees before a call
Seen == [w |-> prim.w.buffer, c |-> prim.c.buffer, r |-> prim.r.buffer, rc |-> prim.rc.buffer]

\* the state after a write through the writer (target "w") or through its
\* clone (target "c") that left it as x: a writer that grew has a new array,
\* otherwise the bytes went into the array it holds, and every object holding
\* that array sees them
AfterWrite(name, target, x) ==
    LET old == IF target = "w" THEN prim.w ELSE prim.c
        id == IF target = "w" THEN prim.wid ELSE prim.cid
        grew == x.w.byteLength # old.byteLength
        heap == IF grew THEN Append(prim.heap, x.w.buffer)
                ELSE [prim.heap EXCEPT ![id] = x.w.buffer]
        nid == IF grew THEN Len(heap) ELSE id
        wid == IF target = "w" THEN nid ELSE prim.wid
        cid == IF target = "c" THEN nid ELSE prim.cid
    IN [prim EXCEPT !.call = name, !.target = target, !.heap = heap,
                    !.wid = wid, !.cid = cid,
                    !.w = [(IF target = "w" THEN x.w ELSE @) EXCEPT !.buffer = heap[wid]],
                    !.c = IF cid = 0 THEN @
                          ELSE [(IF target = "c" THEN x.w ELSE @) EXCEPT !.buffer = heap[cid]],
                    !.r = [@ EXCEPT !.buffer = heap[prim.rid]],
                    !.rc = IF prim.rcid = 0 THEN @ ELSE [@ EXCEPT !.buffer = heap[prim.rcid]],
                    !.before = Seen, !.err = x.err, !.calls = @ + 1]

\* the writers there are
Writers == {"w"} \cup (IF prim.cid # 0 THEN {"c"} ELSE {})

\* writeUint8(value) through the writer or through its clone
CloneWriteUint8 ==
    /\ pc = "clone"
    /\ prim.calls < MaxCalls
    /\ \E target \in Writers, value \in {7, 255} :
       \E x \in {IF target = "w" THEN writeUint8(prim.w, value, prim.w.offset, TRUE)
                 ELSE writeUint8(prim.c, value, prim.c.offset, TRUE)} :
          prim' = AfterWrite("writeUint8", target, x)
    /\ UNCHANGED <<declared, data, pc, schema, enc, out, dec>>

\* writeBits(value, 3) through the writer or through its clone
CloneWriteBits ==
    /\ pc = "clone"
    /\ prim.calls < MaxCalls
    /\ \E target \in Writers, value \in {2, 5} :
       \E x \in {IF target = "w" THEN writeBits(prim.w, value, 3, FALSE)
                 ELSE writeBits(prim.c, value, 3, FALSE)} :
          prim' = AfterWrite("writeBits", target, x)
    /\ UNCHANGED <<declared, data, pc, schema, enc, out, dec>>

\* reader.readBits(3)
CloneReadBits ==
    /\ pc = "clone"
    /\ prim.calls < MaxCalls
    /\ \E x \in {readBits(prim.r, 3, FALSE)} :
          prim' = [prim EXCEPT !.call = "readBits", !.target = "r", !.r = x.r,
                               !.before = Seen, !.err = x.err, !.calls = @ + 1]
    /\ UNCHANGED <<declared, data, pc, schema, enc, out, dec>>

\* writer.clone(reset)
CloneWriter ==
    /\ pc = "clone"
    /\ prim.calls < MaxCalls
    /\ prim.cid = 0
    /\ \E reset \in BOOLEAN :
          prim' = [prim EXCEPT !.call = "clone", !.target = "w", !.reset = reset,
                               !.c = writer_clone(prim.w, reset), !.cid = prim.wid,
                               !.before = Seen, !.err = "none", !.calls = @ + 1]
    /\ UNCHANGED <<declared, data, pc, schema, enc, out, dec>>

\* reader.clone(reset)
CloneReader ==
    /\ pc = "clone"
    /\ prim.calls < MaxCalls
    /\ prim.rcid = 0
    /\ \E reset \in BOOLEAN :
          prim' = [prim EXCEPT !.call = "clone", !.target = "r", !.reset = reset,
                               !.rc = reader_clone(prim.r, reset),
                               !.heap = Append(prim.heap, prim.r.buffer),
                               !.rcid = Len(prim.heap) + 1,
                               !.before = Seen, !.err = "none", !.calls = @ + 1]
    /\ UNCHANGED <<declared, data, pc, schema, enc, out, dec>>

NextClone ==
    \/ CloneWriteUint8
    \/ CloneWriteBits
    \/ CloneReadBits
    \/ CloneWriter
    \/ CloneReader

SpecClone == InitClone /\ [][NextClone]_vars


-----------------------------------------------------------------------------
(* encode(data) and decode(reader) run from entry to return *)

RECURSIVE encodeFields(_, _, _, _)
encodeFields(w, fields, d, k) ==
    IF k > Len(fields) THEN Ok(w)
    ELSE With(encodeField(w, fields[k], d),
              LAMBDA r : IF r.err # "none" THEN r ELSE encodeFields(r.w, fields, d, k + 1))

\* the generated encode(data) called without a writer: writer.bytes, or the
\* error it throws
encode(sch, d) ==
    With(encodeAllocate(sch, d),
         LAMBDA a :
           IF a.err # "none" THEN [bytes |-> <<>>, err |-> a.err]
           ELSE With(encodePrefix(sch, a.w),
                     LAMBDA p :
                       IF p.err # "none" THEN [bytes |-> <<>>, err |-> p.err]
                       ELSE With(encodeFields(p.w, sch.fields, d, 1),
                                 LAMBDA r : [bytes |-> r.w.buffer, err |-> r.err])))

RECURSIVE decodeFields(_, _, _, _)
decodeFields(r, fields, dd, k) ==
    IF k > Len(fields) THEN [r |-> r, data |-> dd, err |-> "none"]
    ELSE With(decodeField(r, fields[k], dd),
              LAMBDA x : IF x.err # "none" THEN [r |-> x.r, data |-> dd, err |-> x.err]
                         ELSE decodeFields(x.r, fields, x.data, k + 1))

\* the generated decode(reader): the reader as it is left, and the record or
\* the error
decodeWith(sch, r) ==
    decodeFields(r, sch.fields, [n \in FieldNames(sch.fields) |-> Undef], 1)

\* the generated decode(new BufferReader(bytes)): the record, or the error
decode(sch, bytes) ==
    With(decodeWith(sch, newBufferReader(bytes)),
         LAMBDA x : [data |-> x.data, err |-> x.err])

\* the generated encode(data, writer): the writer as it is left, and
\* writer.offset - offset, or the error thrown
encodeWith(sch, d, w) ==
    With(encodePrefix(sch, w),
         LAMBDA p :
           IF p.err # "none" THEN [w |-> p.w, count |-> 0, err |-> p.err]
           ELSE With(encodeFields(p.w, sch.fields, d, 1),
                     LAMBDA r : [w |-> r.w, count |-> r.w.offset - w.offset, err |-> r.err]))

-----------------------------------------------------------------------------
(* The step-wise run agrees with the entry-to-return functions *)

StepsAgree ==
    /\ pc = "encoded" => encode(schema, data) = [bytes |-> out, err |-> "none"]
    /\ pc = "encodeThrew" => encode(schema, data).err = enc.err
    /\ pc = "decoded" => decode(schema, dec.r.buffer) = [data |-> dec.data, err |-> "none"]
    /\ pc = "decodeThrew" => decode(schema, dec.r.buffer).err = dec.err

-----------------------------------------------------------------------------
(* Records encoded one after another into a writer the caller supplies *)

\* the schemas of the records written one after another
StreamDeclarations ==
    SingleField
    \cup {Schema(<<Boolean("a"), Integer("b", 8, TRUE)>>),
          Schema(<<Integer("a", 4, FALSE), Boolean("b")>>),
          Schema(<<Boolean("a"), String("b"), Integer("c", 12, FALSE)>>),
          Schema(<<Integer("a", 4, TRUE), Blob("b"), Integer("c", 8, TRUE)>>)}

\* defineSchemas(declared), new BufferWriter(StreamBytes)
InitStream ==
    /\ declared \in StreamDeclarations
    /\ schema = defineSchemas(declared)
    /\ prim = [call |-> "none", w |-> newBufferWriter(StreamBytes, TRUE),
               r |-> newBufferReader(<<>>), log |-> <<>>, decoded |-> <<>>,
               err |-> "none"]
    /\ pc = "stream"
    /\ data = <<>>
    /\ enc = NoEnc
    /\ out = <<>>
    /\ dec = NoDec

\* writer.writeUint8(0) before the first record: the records start further on
StreamSkip ==
    /\ pc = "stream"
    /\ prim.log = <<>> /\ prim.err = "none" /\ prim.w.offset < MaxSkip
    /\ \E x \in {writeUint8(prim.w, 0, prim.w.offset, TRUE)} :
          prim' = [prim EXCEPT !.call = "writeUint8", !.w = x.w, !.err = x.err]
    /\ UNCHANGED <<declared, data, pc, schema, enc, out, dec>>

\* count = encode(d, writer); the entry of the log keeps the record, the
\* cursor the writer had, and the count
EncodeWith ==
    /\ pc = "stream"
    /\ prim.err = "none" /\ Len(prim.log) < MaxRecords
    /\ \E d \in DataFor(schema.fields) :
       \E x \in {encodeWith(schema, d, prim.w)} :
          prim' = [prim EXCEPT !.call = "encode", !.w = x.w, !.err = x.err,
                               !.log = Append(@, [d |-> d, count |-> x.count,
                                                  offset |-> prim.w.offset,
                                                  bitIndex |-> prim.w.bitIndex])]
    /\ UNCHANGED <<declared, data, pc, schema, enc, out, dec>>

\* new BufferReader over the bytes from the first record to the cursor
StreamRead ==
    /\ pc = "stream"
    /\ prim.err = "none" /\ prim.log # <<>>
    /\ prim' = [prim EXCEPT !.call = "reader",
                            !.r = newBufferReader(SubSeq(prim.w.buffer,
                                                         prim.log[1].offset + 1,
                                                         Min(prim.w.offset, prim.w.byteLength)))]
    /\ pc' = "drain"
    /\ UNCHANGED <<declared, data, schema, enc, out, dec>>

\* decode(reader) once more on the same reader
DecodeNext ==
    /\ pc = "drain"
    /\ prim.err = "none" /\ Len(prim.decoded) < Len(prim.log)
    /\ \E x \in {decodeWith(schema, prim.r)} :
          prim' = [prim EXCEPT !.call = "decode", !.r = x.r, !.err = x.err,
                               !.decoded = Append(@, x.data)]
    /\ UNCHANGED <<declared, data, pc, schema, enc, out, dec>>

NextStream ==
    \/ StreamSkip
    \/ EncodeWith
    \/ StreamRead
    \/ DecodeNext

SpecStream == InitStream /\ [][NextStream]_vars


-----------------------------------------------------------------------------
(* What the specification expects of a record *)

\* the record after normalizing, field by field in the frozen order: a field
\* whose dependencies did not all resolve truthy, or that the record leaves
\* out, becomes its default (absent when it declares none)
RECURSIVE NormalizeFrom(_, _, _, _)
NormalizeFrom(fields, d, k, acc) ==
    IF k > Len(fields) THEN acc
    ELSE LET f == fields[k]
             open == \A j \in 1..Len(f.dependencies) : Truthy(acc[f.dependencies[j]])
             v == IF open /\ d[f.name] # Undef THEN d[f.name] ELSE f.default
         IN NormalizeFrom(fields, d, k + 1, [acc EXCEPT ![f.name] = v])

Normalize(fields, d) == NormalizeFrom(fields, d, 1, [n \in FieldNames(fields) |-> Undef])

\* every dependency of f resolved to a truthy value in the record
DependenciesResolved(fields, f, d) ==
    \A j \in 1..Len(f.dependencies) : Truthy(Normalize(fields, d)[f.dependencies[j]])

-----------------------------------------------------------------------------
(* C1 *)

\* C1: round-trip law.  For every validated schema and every record of its
\* shape, decoding the bytes encode returned yields the record after
\* normalizing (absent-with-default fields become their default, fields gated
\* out by dependencies or optional absence stay absent or default).
C1_RoundTrip == pc = "decoded" => dec.data = Normalize(schema.fields, data)

-----------------------------------------------------------------------------
(* C2 *)

\* C2: wire-presence agreement.  For every field with dependencies whose
\* value the record supplies, the encoder emits the payload if and only if
\* every dependency resolved to a truthy value, which is exactly when the
\* decoder reads it; also when a dependency is omitted and defaults to true,
\* and when a dependency is itself gated out while the record supplies it.
C2_WirePresenceAgreement ==
    pc = "decoded" =>
        \A k \in 1..Len(schema.fields) :
            LET f == schema.fields[k] IN
            (HasDeps(f) /\ ~f.optional /\ data[f.name] # Undef) =>
                /\ (f.name \in enc.emitted) <=> DependenciesResolved(schema.fields, f, data)
                /\ (f.name \in enc.emitted) <=> (f.name \in dec.read)


-----------------------------------------------------------------------------
(* C3 *)

\* the non-optional, non-list fields with a default that the record leaves
\* out while all their dependencies resolve truthy
DefaultedFields ==
    {k \in 1..Len(schema.fields) :
        LET f == schema.fields[k] IN
        /\ ~f.optional /\ ~f.list /\ f.default # Undef
        /\ data[f.name] = Undef
        /\ DependenciesResolved(schema.fields, f, data)}

\* C3: default substitution at encode time.  Encoding a record that leaves
\* out a non-optional, non-list field with a default gives exactly the bytes
\* of encoding the record with the field set to its default, also when the
\* field has dependencies and all of them are truthy.
C3_DefaultSubstitution ==
    pc = "encoded" =>
        \A k \in DefaultedFields :
            LET f == schema.fields[k] IN
            encode(schema, [data EXCEPT ![f.name] = f.default])
                = [bytes |-> out, err |-> "none"]

-----------------------------------------------------------------------------
(* C4 *)

\* a schema of a plain Boolean flag and a non-list field that depends on it,
\* with the flag false in the record
FlagFalse ==
    /\ Len(schema.fields) = 2
    /\ schema.fields[1] = Boolean(schema.fields[1].name)
    /\ schema.fields[2].dependencies = <<schema.fields[1].name>>
    /\ ~schema.fields[2].list
    /\ data[schema.fields[1].name] = Bool(FALSE)

\* C4: dependency gating.  With the flag false, the encoded length does not
\* depend on whether the gated field is supplied, and the decoded record has
\* the gated field absent when it declares no default, its default otherwise.
C4_DependencyGating ==
    (FlagFalse /\ pc = "decoded") =>
        LET n == schema.fields[2] IN
        /\ \A x \in FieldValues(n) :
              LET e == encode(schema, [data EXCEPT ![n.name] = x])
              IN e.err = "none" /\ Len(e.bytes) = Len(out)
        /\ dec.data[n.name] = n.default

-----------------------------------------------------------------------------
(* C5 *)

\* C5: exact allocation.  When encode returns, the writer's final offset is
\* the allocated length ceil(bitLength / 8), which is the length of the
\* returned array, and no returned byte was left unwritten.
C5_ExactAllocation ==
    pc = "encoded" =>
        /\ Len(out) = (enc.bitLength + 7) \div 8
        /\ enc.w.offset = Len(out)
        /\ \A k \in 1..Len(out) : out[k] # Uninit

-----------------------------------------------------------------------------
(* C6 *)

\* a schema of one optional field, which the record leaves out
OptionalAbsent ==
    /\ Len(schema.fields) = 1
    /\ schema.prefix = Undef
    /\ schema.fields[1].optional
    /\ data[schema.fields[1].name] = Undef

\* C6: an optional field may be absent, whatever its kind and modifiers.
\* Encoding succeeds and emits the single presence bit 0 and no payload; the
\* decoder consumes that one bit and leaves the field absent (or default).
C6_OptionalAbsent ==
    OptionalAbsent =>
        /\ pc # "encodeThrew"
        /\ pc = "encoded" => out = <<0>>
        /\ pc = "decoded" =>
              /\ dec.r.offset = 1 /\ dec.r.bitIndex = 1
              /\ dec.data[schema.fields[1].name] = schema.fields[1].default


-----------------------------------------------------------------------------
(* C7 *)

\* a Boolean or Integer field without modifiers
PlainBits(f) ==
    /\ f.type \in {"Boolean", "Integer"}
    /\ ~f.list /\ ~f.optional /\ ~HasDeps(f) /\ f.default = Undef

\* a schema without prefix whose fields are all plain bit-granular fields
BitSchema ==
    /\ schema.err = "none"
    /\ schema.prefix = Undef
    /\ \A k \in 1..Len(schema.fields) : PlainBits(schema.fields[k])

Width(f) == IF f.type = "Boolean" THEN 1 ELSE f.bits.n

\* the number of bits of the fields before the k-th
RECURSIVE FirstBit(_, _)
FirstBit(fields, k) ==
    IF k = 1 THEN 0 ELSE FirstBit(fields, k - 1) + Width(fields[k - 1])

\* bit i of a byte sequence, bit 0 being the least significant bit of byte 1
BitAt(bytes, i) == (bytes[(i \div 8) + 1] \div (2 ^ (i % 8))) % 2

\* the unsigned number held by the n bits from bit `first` on, least
\* significant bit first
RECURSIVE WireBits(_, _, _)
WireBits(bytes, first, n) ==
    IF n = 0 THEN 0 ELSE BitAt(bytes, first) + 2 * WireBits(bytes, first + 1, n - 1)

-----------------------------------------------------------------------------
(* C8 *)

\* the schema {t: Integer{bits: 4}, flag: Bool} with prefix 0x42 (the fields
\* are named a and b here) and the record {t: 5, flag: true}
PrefixScenario ==
    /\ schema.err = "none"
    /\ schema.prefix = Num(66)
    /\ schema.fields = <<Integer("a", 4, FALSE), Boolean("b")>>
    /\ data = [a |-> Num(5), b |-> Bool(TRUE)]

\* C8 as the specification states it: encode({t:5, flag:true}) is
\* [0x42, 0b00011010].
C8_PrefixScenarioAsStated == (pc = "encoded" /\ PrefixScenario) => out = <<66, 26>>

\* C8, amended: encode({t:5, flag:true}) is [0x42, 0b00010101]: the prefix
\* byte, then the 4 bits of t = 0b0101 in bits 0..3 and flag = 1 in bit 4,
\* the remaining bits zero.
C8_PrefixScenario == (pc = "encoded" /\ PrefixScenario) => out = <<66, 21>>

C8_Witness == pc = "encoded" /\ PrefixScenario /\ Len(out) = 2 /\ out[1] = 66

-----------------------------------------------------------------------------
(* C9 *)

\* the bytes of writeUint8/16 and writeInt8/16 for a value, little-endian
TypedBytes(f, v) == IF f.bits.n = 8 THEN <<v.n % 256>> ELSE Bytes16(v.n, TRUE)

\* a schema of plain 8- and 16-bit Integers: every field starts byte-aligned
AlignedIntegers ==
    /\ BitSchema
    /\ \A k \in 1..Len(schema.fields) :
          schema.fields[k].type = "Integer" /\ schema.fields[k].bits.n \in {8, 16}

\* C9: Integer width exactness.  A non-list, non-optional Integer of 8 or 16
\* bits, signed or unsigned, that starts byte-aligned anywhere in the record
\* is emitted as the bytes of the corresponding fixed-width write under the
\* writer's endianness.
C9_WidthExactness ==
    (pc = "encoded" /\ AlignedIntegers) =>
        out = Concat([k \in 1..Len(schema.fields) |->
                        TypedBytes(schema.fields[k], data[schema.fields[k].name])])

-----------------------------------------------------------------------------
(* C10 *)

\* C10: signed storage.  For every signed Integer, at every position of the
\* record, the bits on the wire are the unsigned pattern
\* value - rangeMin(bits, true), and the decoder recovers the value by adding
\* rangeMin(bits, true) back.
C10_SignedStorage ==
    BitSchema =>
        \A k \in 1..Len(schema.fields) :
            LET f == schema.fields[k] IN
            (f.type = "Integer" /\ f.signed) =>
                /\ pc = "encoded" =>
                      WireBits(out, FirstBit(schema.fields, k), f.bits.n)
                          = data[f.name].n - rangeMin(f.bits.n, TRUE)
                /\ pc = "decoded" => dec.data[f.name] = data[f.name]


-----------------------------------------------------------------------------
(* Definition time: what defineSchemas accepts and what it refuses *)

\* the names a declared field lists as dependencies
DependenciesOf(fields, name) ==
    IF name \in FieldNames(fields)
    THEN {FieldOf(fields, name).dependencies[k] :
            k \in 1..Len(FieldOf(fields, name).dependencies)}
    ELSE {}

\* the names reached from S along at most n dependency edges
RECURSIVE ReachableFrom(_, _, _)
ReachableFrom(fields, S, n) ==
    IF n = 0 THEN S
    ELSE ReachableFrom(fields, S \cup UNION {DependenciesOf(fields, v) : v \in S}, n - 1)

OnCycle(fields, name) ==
    name \in ReachableFrom(fields, DependenciesOf(fields, name), Len(fields))

HasCycle(fields) == \E name \in FieldNames(fields) : OnCycle(fields, name)

\* every dependency entry names a declared field
AllDeclared(fields) ==
    \A name \in FieldNames(fields) : DependenciesOf(fields, name) \subseteq FieldNames(fields)

IndexOf(fields, name) == CHOOSE k \in 1..Len(fields) : fields[k].name = name

\* C12: topological field order.  After defineSchemas succeeds, the schema's
\* field order is a permutation of the declared fields, none lost and none
\* duplicated, in which every field comes after all of its declared
\* dependencies.
C12_TopologicalOrder ==
    pc = "defined" =>
        /\ Len(schema.fields) = Len(declared.fields)
        /\ \A k \in 1..Len(declared.fields) :
              Cardinality({j \in 1..Len(schema.fields) :
                              schema.fields[j] = FillIncludeSize(declared.fields[k])}) = 1
        /\ \A j \in 1..Len(schema.fields) :
              \A dep \in DependenciesOf(schema.fields, schema.fields[j].name) :
                 /\ dep \in FieldNames(schema.fields)
                 /\ IndexOf(schema.fields, dep) < j

\* a schema declared with a field ahead of two dependencies, one of which
\* depends on the other, was accepted and put in another order
C12_Witness ==
    /\ pc = "defined"
    /\ Len(declared.fields) = 3
    /\ Cardinality(DependenciesOf(declared.fields, declared.fields[1].name)) = 2
    /\ DependenciesOf(declared.fields, declared.fields[2].name) = {declared.fields[3].name}
    /\ schema.fields[1].name = declared.fields[3].name
    /\ schema.fields[3].name = declared.fields[1].name

\* some dependencies entry names a field that is not declared
MissingDependency(fields) == ~AllDeclared(fields)

\* some dependencies entry names a declared field that is not a Boolean
NonBooleanDependency(fields) ==
    \E name \in FieldNames(fields) :
        \E dep \in DependenciesOf(fields, name) :
            dep \in FieldNames(fields) /\ FieldOf(fields, dep).type # "Boolean"

\* C13: dependency existence and typing.  Every schema in which a dependencies
\* entry names a field that does not exist, or a field that is not a Boolean,
\* is refused by defineSchemas with a SchemaInvalid error (an Error raised by
\* the validator) that carries the name of a declared field.
C13_DependencyValidation ==
    (/\ pc # "declared"
     /\ MissingDependency(declared.fields) \/ NonBooleanDependency(declared.fields)) =>
        /\ pc = "rejected"
        /\ schema.err = "Error"
        /\ schema.field \in FieldNames(declared.fields)

\* the part of C13 about typing alone: with every dependency declared, a
\* non-Boolean dependency is refused with an Error naming a field
NonBooleanDependencyRefused ==
    (/\ pc # "declared"
     /\ AllDeclared(declared.fields)
     /\ NonBooleanDependency(declared.fields)) =>
        /\ pc = "rejected"
        /\ schema.err = "Error"
        /\ schema.msg \in {"dependency type", "circular"}
        /\ schema.field \in FieldNames(declared.fields)

\* bits of an Integer declaration is present and within [1, 53]
BitsInRange(f) == f.bits # Undef /\ f.bits.n >= 1 /\ f.bits.n <= 53

\* C14: every schema accepted by defineSchemas has bits in [1, 53] for each
\* Integer field; a declaration with bits missing, bits <= 0 or bits > 53 is
\* refused at definition time.
C14_IntegerBits ==
    /\ pc = "defined" =>
          \A k \in 1..Len(schema.fields) :
              schema.fields[k].type = "Integer" => BitsInRange(schema.fields[k])
    /\ (/\ pc # "declared"
        /\ \E k \in 1..Len(declared.fields) :
              declared.fields[k].type = "Integer" /\ ~BitsInRange(declared.fields[k])) =>
          pc = "rejected"

\* the part of C14 the validator enforces: bits missing or not positive is
\* refused with an Error naming the field, and an accepted Integer has bits >= 1
PositiveBitsEnforced ==
    /\ pc = "defined" =>
          \A k \in 1..Len(schema.fields) :
              schema.fields[k].type = "Integer" =>
                  schema.fields[k].bits # Undef /\ schema.fields[k].bits.n >= 1
    /\ (/\ pc # "declared"
        /\ ~HasCycle(declared.fields)
        /\ AllDeclared(declared.fields)
        /\ \E k \in 1..Len(declared.fields) :
              /\ declared.fields[k].type = "Integer"
              /\ declared.fields[k].bits = Undef \/ declared.fields[k].bits.n <= 0) =>
          pc = "rejected" /\ schema.err = "Error" /\ schema.field # ""

\* a numeric default lies within [min, max]
NumericDefaultOk(f) ==
    f.default # Undef =>
        /\ f.min # Undef => f.default.n >= f.min.n
        /\ f.max # Undef => f.default.n <= f.max.n

\* a String default has its length within [minLength, maxLength]
DefaultLengthOk(f) ==
    f.default # Undef =>
        /\ f.minLength # Undef => Len(f.default.s) >= f.minLength.n
        /\ f.maxLength # Undef => Len(f.default.s) <= f.maxLength.n

\* a String default, the empty string included, matches the pattern
DefaultPatternOk(f) ==
    (f.default # Undef /\ f.pattern # Undef) => patternTest(f.pattern, f.default.s)

DefaultOk(f) ==
    CASE f.type = "Integer" -> NumericDefaultOk(f)
      [] f.type = "String" -> DefaultLengthOk(f) /\ DefaultPatternOk(f)
      [] OTHER -> TRUE

\* C15: every schema accepted by defineSchemas has defaults that satisfy the
\* field's own constraints (a numeric default within [min, max]; a String
\* default, the empty string included, of length within [minLength, maxLength]
\* and matching pattern), and a declaration violating this is refused.
C15_DefaultsSatisfyConstraints ==
    /\ pc = "defined" => \A k \in 1..Len(schema.fields) : DefaultOk(schema.fields[k])
    /\ (/\ pc # "declared"
        /\ \E k \in 1..Len(declared.fields) : ~DefaultOk(declared.fields[k])) =>
          pc = "rejected"

\* the parts of C15 the validator enforces: numeric range, String length, and
\* the pattern of a non-empty String default
NonEmptyDefaultsChecked ==
    pc = "defined" =>
        \A k \in 1..Len(schema.fields) :
            LET f == schema.fields[k] IN
            /\ f.type = "Integer" => NumericDefaultOk(f)
            /\ f.type = "String" =>
                  /\ DefaultLengthOk(f)
                  /\ Truthy(f.default) => DefaultPatternOk(f)

-----------------------------------------------------------------------------
(* Static bit length *)

\* the natural width of a fixed-width kind
NaturalWidth(f) == IF f.type = "Boolean" THEN 1 ELSE f.bits.n

\* what one field adds to the static bit length, as the specification words it
StatedFieldBits(f) ==
    (IF f.optional THEN 1 ELSE 0)
    + (IF f.list THEN 16 ELSE 0)
    + (IF f.type \in {"Boolean", "Integer"} /\ ~f.list /\ ~HasDeps(f) /\ ~f.optional
       THEN NaturalWidth(f) ELSE 0)
    + (IF /\ f.type \in {"String", "Buffer"}
          /\ ~f.list /\ Truthy(f.includeSize) /\ ~HasDeps(f) /\ ~f.optional
       THEN 16 ELSE 0)

RECURSIVE StatedBits(_, _)
StatedBits(fields, k) ==
    IF k > Len(fields) THEN 0 ELSE StatedFieldBits(fields[k]) + StatedBits(fields, k + 1)

\* an optional, non-list Boolean without dependencies
OptionalFlag(f) == f.type = "Boolean" /\ f.optional /\ ~f.list /\ ~HasDeps(f)

\* C16: static bit length.  precomputeBitLength returns exactly +1 per
\* optional field, +16 per list field, the natural width (Boolean 1, Integer
\* bits) only for fields that are non-list, without dependencies and not
\* optional, +16 for non-list String / Blob with includeSize, without
\* dependencies and not optional, and +8 when metadata.prefix is set.
C16_StaticBitLength ==
    pc = "defined" =>
        schema.bitLength
            = StatedBits(schema.fields, 1) + (IF schema.prefix # Undef THEN 8 ELSE 0)

\* the stated sum is what the code computes for every schema without an
\* optional Boolean, and one bit less for each optional Boolean
StaticBitLengthButOptionalFlags ==
    pc = "defined" =>
        schema.bitLength
            = StatedBits(schema.fields, 1) + (IF schema.prefix # Undef THEN 8 ELSE 0)
              + Cardinality({k \in 1..Len(schema.fields) : OptionalFlag(schema.fields[k])})

\* C17: size lower bound.  For every validated schema and every value for
\* which encode succeeds, the returned array has at least
\* ceil(staticBitLength / 8) bytes.
C17_SizeLowerBound ==
    pc = "encoded" => Len(out) >= (schema.bitLength + 7) \div 8

\* encode returned exactly ceil(staticBitLength / 8) bytes, more than one
C17_Witness ==
    /\ pc = "encoded"
    /\ schema.bitLength > 8
    /\ Len(out) = (schema.bitLength + 7) \div 8

-----------------------------------------------------------------------------
(* Range checks at encode time *)

\* a number below the declared min or above the declared max
BelowMinOrAboveMax(f, v) ==
    /\ v.t = "number"
    /\ \/ f.min # Undef /\ v.n < f.min.n
       \/ f.max # Undef /\ v.n > f.max.n

\* an Integer field that declares min and / or max, whose payload the encoder
\* reaches, and whose value (or one of whose list elements) is outside them
OutOfBounds(f, d) ==
    /\ f.type = "Integer"
    /\ f.min # Undef \/ f.max # Undef
    /\ encodeGate(f, d)
    /\ IF f.list
       THEN d[f.name].t = "list"
            /\ \E j \in 1..Len(d[f.name].l) : BelowMinOrAboveMax(f, d[f.name].l[j])
       ELSE BelowMinOrAboveMax(f, d[f.name])

-----------------------------------------------------------------------------
(* Quantization *)

\* |a|
Abs(a) == IF a < 0 THEN -a ELSE a

\* the call is one the claim speaks of: min <= value <= max, min < max,
\* 1 <= bits <= 53
QuantizationCase ==
    /\ prim.args.minimum <= prim.args.value
    /\ prim.args.value <= prim.args.maximum
    /\ prim.args.minimum < prim.args.maximum
    /\ prim.args.bits >= 1 /\ prim.args.bits <= 53

\* the number `decoded` is finite and differs from value by at most
\* (max - min) / (2 * steps)
RestoredWithin(steps) ==
    /\ prim.decoded.kind = "finite"
    /\ 2 * steps * Abs(prim.decoded.num - prim.args.value * prim.decoded.den)
          <= (prim.args.maximum - prim.args.minimum) * prim.decoded.den

\* C19: quantization inverse.  For min <= value <= max, min < max and
\* 1 <= bits <= 53, fromPrecision(toPrecision(value, max, bits, signed, min),
\* max, bits, signed, min) differs from value by at most
\* (max - min) / (2 * (2^bits - 1)), for signed = false and for signed = true.
C19_QuantizationInverse ==
    QuantizationCase =>
        /\ pc # "precisionThrew"
        /\ pc = "restored" => RestoredWithin(2 ^ prim.args.bits - 1)

\* what the code achieves: the stated precision for signed = false, and for
\* signed = true the precision of 2^(bits-1) - 1 steps when bits >= 2
QuantizationByRangeMax ==
    (QuantizationCase /\ pc = "restored") =>
        /\ ~prim.args.signed => RestoredWithin(2 ^ prim.args.bits - 1)
        /\ (prim.args.signed /\ prim.args.bits >= 2) =>
              RestoredWithin(2 ^ (prim.args.bits - 1) - 1)
        /\ (prim.args.signed /\ prim.args.bits = 1) => prim.decoded.kind = "NaN"

-----------------------------------------------------------------------------
(* The range check of writeBits *)

\* the last call was writeBits with a value outside the range of its width
WroteOutOfRange ==
    /\ prim.call = "writeBits"
    /\ \/ prim.value < rangeMin(prim.bits, prim.signed)
       \/ prim.value > rangeMax(prim.bits, prim.signed)

\* the cursor the call found: byte-aligned, with bitOffset on the byte offset
FastPath == prim.before.bitIndex = 0 /\ prim.before.bitOffset = prim.before.offset

\* C20: writeBits range check.  For every width, both signedness values and
\* every cursor state, a byte-aligned cursor with bits 8 or 16 included,
\* writeBits(value, bits, signed) raises a RangeError when value is below
\* rangeMin(bits, signed) or above rangeMax(bits, signed), and writes nothing.
C20_WriteBitsRangeCheck ==
    WroteOutOfRange => prim.err = "RangeError" /\ prim.w = prim.before

\* the check is made wherever writeBits does not hand the value to a byte write
RangeCheckedOffFastPath ==
    (WroteOutOfRange /\ ~(FastPath /\ prim.bits \in {8, 16})) =>
        prim.err = "RangeError" /\ prim.w = prim.before

-----------------------------------------------------------------------------
(* Reading beyond the end of the buffer *)

\* the bits from the reader's bit cursor on
BitsLeft(r) ==
    8 * r.byteLength - (IF r.bitIndex = 0 THEN 8 * r.offset ELSE 8 * r.bitOffset + r.bitIndex)

\* the bytes from the reader's byte cursor on
BytesLeft(r) == r.byteLength - r.offset

\* the number in the two bytes at the byte cursor, little-endian
LengthPrefix(r) == r.buffer[r.offset + 1] + 256 * r.buffer[r.offset + 2]

\* the last call asked for more than the buffer holds past the cursor
ReadBeyondEnd ==
    CASE prim.call = "readBits" -> prim.args.bits > BitsLeft(prim.before)
      [] prim.call = "readBoolean" ->
            IF prim.args.byte THEN BytesLeft(prim.before) < 1 ELSE BitsLeft(prim.before) < 1
      [] prim.call \in {"readUint8", "readInt8"} -> BytesLeft(prim.before) < 1
      [] prim.call \in {"readUint16", "readInt16"} -> BytesLeft(prim.before) < 2
      [] prim.call \in {"readBuffer", "readString"} ->
            IF prim.args.size = Bool(TRUE)
            THEN \/ BytesLeft(prim.before) < 2
                 \/ LengthPrefix(prim.before) > BytesLeft(prim.before) - 2
            ELSE prim.args.size.t = "number" /\ prim.args.size.n > BytesLeft(prim.before)
      [] OTHER -> FALSE

\* C21: reader underflow.  Every reader operation that would consume bytes
\* beyond the end of the buffer (readBits / readBoolean at any bit position,
\* the fixed-width reads, readBuffer / readString whose 16-bit length prefix
\* or explicit byte count exceeds the remaining bytes) fails with a RangeError
\* instead of returning a value.
C21_ReaderUnderflow ==
    ReadBeyondEnd => prim.err = "RangeError"

\* the reads that go through the DataView do fail beyond the end
FixedWidthUnderflow ==
    (/\ ReadBeyondEnd
     /\ \/ prim.call \in {"readUint8", "readInt8", "readUint16", "readInt16"}
        \/ prim.call = "readBoolean" /\ prim.args.byte) =>
        prim.err = "RangeError" /\ prim.r = prim.before

-----------------------------------------------------------------------------
(* Reading without advancing *)

\* the three fields of a reader's cursor
ReaderCursor(r) == <<r.offset, r.bitOffset, r.bitIndex>>

\* the last call was made with advance = false and returned a value
Peeked == prim.call # "none" /\ ~prim.args.adv /\ prim.err = "none"

\* C24: a peek leaves the reader unchanged.  Every reader operation called
\* with advance = false (readBits, readBoolean in bit and in byte mode, the
\* fixed-width reads, readUint, readInt, readBuffer, readString) returns its
\* value and leaves offset, bitOffset and bitIndex as they were.
C24_PeekLeavesCursor ==
    Peeked => ReaderCursor(prim.r) = ReaderCursor(prim.before)

\* every peek but the bit-mode readBoolean leaves the cursor where it was
PeekLeavesCursorButBitBoolean ==
    (Peeked /\ ~(prim.call = "readBoolean" /\ ~prim.args.byte)) =>
        prim.r = prim.before

-----------------------------------------------------------------------------
(* Capacity and cursor of the writer *)

\* the last call on the writer returned without an error
Wrote == prim.call # "none" /\ prim.err = "none"

\* the last writeBits went to writeUint8 / writeInt8 / writeUint16 / writeInt16
Delegated == FastPath /\ prim.bits \in {8, 16}

\* the bytes the writer has moved over are bytes of its buffer
Reserved(w) == w.offset <= Len(w.buffer)

\* C22: no write is silently dropped.  Every writer operation first reserves
\* the bytes it needs: it fails with a RangeError when the writer is not
\* resizable, and grows the buffer otherwise, so that after a write that
\* returned the bytes written are bytes of the buffer (on a growable writer
\* created with no size, writeUint16(1234) followed by writeBits(5, 3) leaves
\* the 3 bits stored).
C22_NoWriteDropped ==
    Wrote => Reserved(prim.w)

\* the byte writes and the aligned 8 / 16-bit writeBits reserve their bytes
ByteWritesReserve ==
    (/\ Wrote
     /\ Reserved(prim.before)
     /\ \/ prim.call \in {"writeUint8", "writeUint16"}
        \/ prim.call = "writeBits" /\ Delegated) =>
        Reserved(prim.w)

\* new BufferWriter(); writeUint16(1234); writeBits(5, 3): the third byte is
\* not part of the buffer
BitsDroppedOnGrowable ==
    /\ prim.call = "writeBits" /\ prim.err = "none" /\ prim.value = 5 /\ prim.bits = 3
    /\ prim.before.resizable /\ prim.before.buffer = <<210, 4>> /\ prim.before.offset = 2
    /\ prim.w.buffer = <<210, 4>> /\ prim.w.offset = 3

\* C25: writer cursor invariant.  After any sequence of writes ending with a
\* bit-granular write (writeBits or bit-mode writeBoolean), byte writes
\* interleaved or not, offset = bitOffset + 1 and bitIndex is in 0..7.
C25_WriterCursor ==
    (Wrote /\ prim.call \in {"writeBits", "writeBoolean"}) =>
        prim.w.offset = prim.w.bitOffset + 1 /\ prim.w.bitIndex \in 0..7

\* a bit-granular write that starts a new byte leaves the byte cursor right
\* behind the byte that holds the bit cursor
CursorAfterNewByte ==
    (/\ Wrote
     /\ prim.call \in {"writeBits", "writeBoolean"}
     /\ prim.before.bitIndex = 0
     /\ ~Delegated) =>
        prim.w.offset = prim.w.bitOffset + 1 /\ prim.w.bitIndex \in 0..7

\* writeBits(1, 1); writeUint8(v); writeBits(1, 1): the third write goes back
\* to the first byte and leaves the byte cursor two bytes further
CursorAfterInterleavedByte ==
    /\ Wrote /\ prim.call \in {"writeBits", "writeBoolean"} /\ prim.calls = 3
    /\ prim.before.bitIndex = 1 /\ prim.before.bitOffset = 0 /\ prim.before.offset = 2
    /\ prim.w.bitIndex = 2 /\ prim.w.bitOffset = 0 /\ prim.w.offset = 2

-----------------------------------------------------------------------------
(* Reading back what writeBits wrote *)

\* the cursor of a writer
WriterCursor(w) == <<w.offset, w.bitOffset, w.bitIndex>>

\* all digits of u from position n on (counted from 0) are 0
ZeroFrom(u, n) == \A i \in (n + 1)..WideBits : u[i] = 0

\* The number read is the number written.  The number written is
\* u + rangeMin(bits, signed) with u below 2^bits; a number read by the loop
\* of readBits with signed is int32 + rangeMin(bits, signed), so the two are
\* equal when the int32 is u; a number read by getInt32 has the pattern of
\* u - 2^31.
SameNumber(result, u, bits, signed) ==
    CASE result.kind = "number" -> result.n = IntOf(u, bits) + rangeMin(bits, signed)
      [] result.kind = "uint32" ->
            ~signed /\ ZeroFrom(u, 32) /\ \A i \in 1..32 : result.pattern[i] = u[i]
      [] result.kind = "int32+min" ->
            /\ result.pattern[32] = 0
            /\ ZeroFrom(u, 31)
            /\ \A i \in 1..31 : result.pattern[i] = u[i]
      [] result.kind = "int32" ->
            /\ ZeroFrom(u, 32)
            /\ \A i \in 1..31 : result.pattern[i] = u[i]
            /\ result.pattern[32] = 1 - u[32]

\* a writeBits / readBits pair started with the two cursors equal, raised
\* nothing, and stayed within the buffer
WroteAndRead ==
    /\ prim.call = "bits"
    /\ WriterCursor(prim.wbefore) = ReaderCursor(prim.rbefore)
    /\ prim.werr = "none" /\ prim.rerr = "none"
    /\ Reserved(prim.w)

\* C23: readBits is the inverse of writeBits.  For every width from 1 to 53,
\* both signedness values, every value within the range of the width and
\* every starting cursor (aligned or at a bit index, at offset 0 or later),
\* writing the value and reading the same width from the same start returns
\* the value and leaves the reader and the writer with the same offset,
\* bitOffset and bitIndex.
C23_ReadBitsInverse ==
    WroteAndRead =>
        /\ SameNumber(prim.result, prim.value, prim.bits, prim.signed)
        /\ ReaderCursor(prim.r) = WriterCursor(prim.w)

\* up to 31 bits, and with 32 bits unsigned or aligned, the value comes back
ReadBitsInverseUpTo31 ==
    (/\ WroteAndRead
     /\ \/ prim.bits <= 31
        \/ prim.bits = 32 /\ (~prim.signed \/ prim.result.kind = "int32")) =>
        SameNumber(prim.result, prim.value, prim.bits, prim.signed)

\* the two cursors stay equal whatever the width
CursorsAgree ==
    WroteAndRead => ReaderCursor(prim.r) = WriterCursor(prim.w)

\* a signed 32-bit value written and read by the loops comes back only when
\* it is negative
Signed32ByTheLoop ==
    (WroteAndRead /\ prim.bits = 32 /\ prim.signed /\ prim.result.kind = "int32+min") =>
        (SameNumber(prim.result, prim.value, prim.bits, prim.signed) <=> prim.value[32] = 0)

-----------------------------------------------------------------------------
(* The prefix byte at decode time *)

\* a schema with a prefix whose fields are all plain bit-granular fields
PrefixedBitSchema ==
    /\ schema.err = "none"
    /\ schema.prefix # Undef
    /\ schema.fields # <<>>
    /\ \A k \in 1..Len(schema.fields) : PlainBits(schema.fields[k])

\* C26: the decoder mirrors the encoder's prefix.  For a schema with
\* metadata.prefix set, decode on a fresh reader at the start of the bytes
\* encode(v) returned consumes the 8-bit prefix before the first field and
\* returns v.
C26_DecoderMirrorsPrefix ==
    (pc = "decoded" /\ PrefixedBitSchema) =>
        /\ dec.data = data
        /\ dec.r.offset = Len(out)

\* with a prefix, the decoder reads the first field from the prefix byte
FirstFieldReadFromPrefix ==
    (pc = "decoded" /\ PrefixedBitSchema) =>
        LET f == schema.fields[1] IN
        /\ out[1] = schema.prefix.n
        /\ f.type = "Boolean" => dec.data[f.name] = Bool(schema.prefix.n % 2 = 1)
        /\ (f.type = "Integer" /\ ~f.signed) =>
              dec.data[f.name] = Num(schema.prefix.n % (2 ^ f.bits.n))

-----------------------------------------------------------------------------
(* Bytes of the allocation that encode never wrote *)

\* the positions of the returned array that still hold what the allocation held
Unwritten(bytes) == {k \in 1..Len(bytes) : bytes[k] = Uninit}

\* C28: the output of encode is determined by the schema and the value.  Two
\* calls encode(v) without a writer return arrays equal in every byte: no
\* byte of the returned array still holds the content of the allocation,
\* which the writer does not clear.
C28_OutputDetermined ==
    pc = "encoded" => Unwritten(out) = {}

\* when every field is a plain Boolean or Integer, every byte is written
PlainBitsAllWritten ==
    (pc = "encoded" /\ (BitSchema \/ PrefixedBitSchema)) => Unwritten(out) = {}

-----------------------------------------------------------------------------
(* Independence of a clone *)

\* the last call was a write through one writer while the other existed
WroteBesideClone == prim.call \in {"writeUint8", "writeBits"} /\ prim.cid # 0

\* C27: clone independence.  clone() on a writer and on a reader returns an
\* instance with its own state: with reset = false it starts at the offset,
\* bitOffset and bitIndex of the original, and once the clone is made no write
\* through either instance changes the bytes seen through the other.
C27_CloneIndependence ==
    /\ (prim.call = "clone" /\ prim.target = "w" /\ ~prim.reset) =>
          WriterCursor(prim.c) = WriterCursor(prim.w)
    /\ (prim.call = "clone" /\ prim.target = "r" /\ ~prim.reset) =>
          ReaderCursor(prim.rc) = ReaderCursor(prim.r)
    /\ (WroteBesideClone /\ prim.target = "w") => prim.c.buffer = prim.before.c
    /\ (WroteBesideClone /\ prim.target = "c") => prim.w.buffer = prim.before.w
    /\ (prim.call \in {"writeUint8", "writeBits"} /\ prim.rcid # 0) =>
          prim.rc.buffer = prim.before.rc

\* a clone starts at the cursor of the original, or at 0 with reset, and the
\* clone of a reader has its own copy of the bytes
CloneCursorAndReaderCopy ==
    /\ (prim.call = "clone" /\ prim.target = "w") =>
          WriterCursor(prim.c) = (IF prim.reset THEN <<0, 0, 0>> ELSE WriterCursor(prim.w))
    /\ (prim.call = "clone" /\ prim.target = "r") =>
          /\ ReaderCursor(prim.rc) = (IF prim.reset THEN <<0, 0, 0>> ELSE ReaderCursor(prim.r))
          /\ prim.rc.buffer = prim.r.buffer
    /\ (prim.call \in {"writeUint8", "writeBits"} /\ prim.rcid # 0) =>
          prim.rc.buffer = prim.before.rc

\* the clone of a writer holds the array of the original until one of them
\* grows
WriterCloneSharesBytes ==
    (prim.call = "clone" /\ prim.target = "w") => prim.cid = prim.wid

-----------------------------------------------------------------------------
(* The same bytes wherever the record starts *)

\* the last call was encode(d, writer), it returned, and the writer was at a
\* whole byte when it was called
EncodedAligned ==
    /\ prim.call = "encode" /\ prim.err = "none"
    /\ prim.log[Len(prim.log)].bitIndex = 0
    /\ Reserved(prim.w)

\* the bytes the last encode(d, writer) wrote: [offset, offset + count)
Written ==
    LET e == prim.log[Len(prim.log)]
    IN SubSeq(prim.w.buffer, e.offset + 1, e.offset + e.count)

\* C29: position independence of the wire format.  For every schema, value
\* and writer whose cursor is at a whole byte (bitIndex 0) at any offset k,
\* the bytes encode(v, writer) writes at [k, k + count) are the bytes
\* encode(v) returns without a writer, so a fresh reader over them decodes v.
C29_PositionIndependence ==
    EncodedAligned =>
        LET e == prim.log[Len(prim.log)]
        IN /\ encode(schema, e.d) = [bytes |-> Written, err |-> "none"]
           /\ decode(schema, Written) = [data |-> Normalize(schema.fields, e.d), err |-> "none"]

\* records of plain Booleans and unsigned Integers have the same bytes at
\* every offset
UnsignedBitsSameBytes ==
    (/\ EncodedAligned
     /\ BitSchema \/ PrefixedBitSchema
     /\ \A k \in 1..Len(schema.fields) : ~schema.fields[k].signed) =>
        encode(schema, prim.log[Len(prim.log)].d) = [bytes |-> Written, err |-> "none"]

\* a signed 8-bit Integer alone in its schema is stored in two's complement
\* at offset 0, where writeBits goes to writeInt8, and as value + 128 at any
\* other offset
SignedByteDependsOnOffset ==
    (/\ EncodedAligned
     /\ BitSchema
     /\ Len(schema.fields) = 1
     /\ schema.fields[1].type = "Integer" /\ schema.fields[1].signed
     /\ schema.fields[1].bits.n = 8) =>
        LET e == prim.log[Len(prim.log)]
            v == e.d[schema.fields[1].name].n
        IN /\ encode(schema, e.d) = [bytes |-> <<v % 256>>, err |-> "none"]
           /\ Written = <<IF e.offset = 0 THEN v % 256 ELSE v + 128>>

-----------------------------------------------------------------------------
(* Several records in one writer, read back by one reader *)

\* encode(d) and decode of its bytes give d back
RoundTripsAlone(d) ==
    With(encode(schema, d),
         LAMBDA e : e.err = "none" /\ decode(schema, e.bytes) = [data |-> d, err |-> "none"])

RECURSIVE SumCounts(_, _)
SumCounts(log, k) == IF k = 0 THEN 0 ELSE log[k].count + SumCounts(log, k - 1)

\* every record written has been decoded, nothing was raised, the schema has
\* no prefix, the writer was large enough, and every record round-trips alone
Drained ==
    /\ pc = "drain" /\ prim.err = "none"
    /\ Len(prim.decoded) = Len(prim.log)
    /\ schema.prefix = Undef
    /\ Reserved(prim.w)
    /\ \A i \in 1..Len(prim.log) : RoundTripsAlone(prim.log[i].d)

\* C30: sequential multi-record round trip.  For every schema without a
\* prefix and every sequence of values each of which round-trips alone,
\* encoding them one after another into one fixed-capacity writer that is
\* large enough and calling decode as many times on one reader over the
\* written bytes returns the values in order, and the byte counts the encode
\* calls returned add up to the writer's final offset minus its initial one.
C30_SequentialRoundTrip ==
    Drained =>
        /\ \A i \in 1..Len(prim.log) : prim.decoded[i] = prim.log[i].d
        /\ SumCounts(prim.log, Len(prim.log)) = prim.w.offset - prim.log[1].offset

\* every String and Buffer field is written with its 16-bit length
Framed ==
    \A k \in 1..Len(schema.fields) :
        schema.fields[k].type \in {"String", "Buffer"} => Truthy(schema.fields[k].includeSize)

\* when the first record starts at offset 0 and every String and Buffer field
\* carries its length, the records come back in order
SequentialFromOffsetZero ==
    (Drained /\ prim.log[1].offset = 0 /\ Framed) =>
        \A i \in 1..Len(prim.log) : prim.decoded[i] = prim.log[i].d

\* the counts returned add up to the distance the writer moved
CountsAddUp ==
    (pc = "drain" /\ prim.err = "none") =>
        SumCounts(prim.log, Len(prim.log)) = prim.w.offset - prim.log[1].offset

====
